---- MODULE Spec2Model ----
(***************************************************************************)
(* Telemetry decoding, merge buffer, resistance correlator, session driver *)
(* and compatibility classifier of the YAFIT compatibility tester          *)
(* (backend/data_handler.py, backend/device_test.py,                       *)
(* backend/is_yafit_interactive.py, backend/analyze_result.py).            *)
(*                                                                         *)
(* Encodings.  A Python dict is a TLA+ function; a missing key is a value  *)
(* outside its DOMAIN.  Decoded field values are kept exactly, in          *)
(* hundredths (speed raw/100 is stored as raw, cadence raw/2 as raw*50,    *)
(* distance raw/10 as raw*10, integer fields as raw*100).  Byte strings    *)
(* are sequences over 0..255.  Python None is NoneData for a byte string,  *)
(* NoneInt for an integer, NoneStr for a string and NoneDict for a dict.   *)
(***************************************************************************)
EXTENDS Integers, Sequences, FiniteSets, TLC

VARIABLES
    pc,                  \* position of main() / connect_and_test_device()
    test_results,        \* the Observation Record (shared dict)
    resistance_tracking, \* the Correlator State (shared dict)
    packet_buffer,       \* the Merge Buffer
    step,                \* index of the next command of the FTMS test script
    nNotifs,             \* Indoor Bike Data notifications delivered so far
    nAcks,               \* control-point acknowledgements delivered so far
    nFaults,             \* swallowed GATT failures so far
    sessions,            \* history: number of connect_and_test_device calls
    ending,              \* history: the way connect_and_test_device was left
    analyzeCalls,        \* history: number of analyze_test_results calls
    analyzed,            \* history: the dict the classifier was called with
    flushed,             \* history: the fields the teardown flush folded
    pendingOp,           \* history: the handler path that stored the pending entry
    before,              \* history: the shared dicts as the latest handler call found them
    carried,             \* history: per field kind, the value the latest notification with it carried
    contrib,             \* history: per notification, the number of folded samples it went into
    last                 \* history: what the latest handler call did

prog == <<pc, test_results, resistance_tracking, packet_buffer, step>>
counters == <<nNotifs, nAcks, nFaults>>
hist == <<sessions, ending, analyzeCalls, analyzed, flushed, pendingOp,
         before, carried, contrib>>
vars == <<prog, counters, hist, last>>

---------------------------------------------------------------------------
(* Bounds of the exploration *)

MaxNotifs == 2
MaxAcks == 1
MaxFaults == 1
MaxStreamNotifs == 3
MaxStreamAcks == 1
MaxCorrNotifs == 2
MaxCorrAcks == 1
MaxFlags == 8191
MaxCut == 2
MaxSessionNotifs == 2
MaxSessionAcks == 1
MaxFoldNotifs == 3
MaxFoldAcks == 1
MaxServerNotifs == 3
MaxServerAcks == 1

---------------------------------------------------------------------------
(* Python None, one per type *)

NoneData == <<-1>>
NoneInt == -65536
NoneStr == "None"
NoneDict == [k \in {"<None>"} |-> "<None>"]
EmptyDict == <<>>

(* dict.get(k, default), d[k] = v and dict.update *)
Get(d, k, default) == IF k \in DOMAIN d THEN d[k] ELSE default
Put(d, k, v) == [x \in (DOMAIN d) \cup {k} |-> IF x = k THEN v ELSE d[x]]
Update(d, e) == [x \in (DOMAIN d) \cup (DOMAIN e) |->
                    IF x \in DOMAIN e THEN e[x] ELSE d[x]]

---------------------------------------------------------------------------
(* Integer and byte helpers *)

Min(a, b) == IF a < b THEN a ELSE b

RECURSIVE BitAnd(_, _)
\* a & b on non-negative integers
BitAnd(a, b) ==
    IF a = 0 \/ b = 0 THEN 0
    ELSE (a % 2) * (b % 2) + 2 * BitAnd(a \div 2, b \div 2)

RECURSIVE BitOr(_, _)
\* a | b on non-negative integers
BitOr(a, b) ==
    IF a = 0 THEN b
    ELSE IF b = 0 THEN a
    ELSE (IF (a % 2) + (b % 2) > 0 THEN 1 ELSE 0) + 2 * BitOr(a \div 2, b \div 2)

\* data[lo:hi] (0-based, end exclusive, clipped to the length)
Slice(data, lo, hi) == SubSeq(data, lo + 1, Min(hi, Len(data)))

RECURSIVE FromBytesLE(_)
\* int.from_bytes(b, byteorder='little')
FromBytesLE(b) == IF b = <<>> THEN 0 ELSE Head(b) + 256 * FromBytesLE(Tail(b))

\* 256^w
Pow256(w) == CASE w = 0 -> 1 [] w = 1 -> 256 [] w = 2 -> 65536 [] w = 3 -> 16777216

\* a signed read that keeps the unsigned value
FromBytesLESigned_Unsigned(b) == FromBytesLE(b)

\* int.from_bytes(b, byteorder='little', signed=True)
FromBytesLESigned(b) ==
    LET raw == FromBytesLE(b)
    IN  IF Len(b) > 0 /\ raw >= Pow256(Len(b)) \div 2 THEN raw - Pow256(Len(b)) ELSE raw

RECURSIVE ToBytesLE(_, _)
\* n.to_bytes(w, byteorder='little')
ToBytesLE(n, w) == IF w = 0 THEN <<>> ELSE <<n % 256>> \o ToBytesLE(n \div 256, w - 1)

---------------------------------------------------------------------------
(* Indoor Bike Data field table: the thirteen if-blocks of                 *)
(* process_indoor_bike_data, in the order the code walks them.  mul is the *)
(* factor that turns the raw integer into hundredths of the field's unit.  *)

FieldTable == <<
    [kind |-> "speed",          mask |-> 1,    clear |-> TRUE,  width |-> 2, mul |-> 1,   signed |-> FALSE],
    [kind |-> "avg_speed",      mask |-> 2,    clear |-> FALSE, width |-> 2, mul |-> 1,   signed |-> FALSE],
    [kind |-> "cadence",        mask |-> 4,    clear |-> FALSE, width |-> 2, mul |-> 50,  signed |-> FALSE],
    [kind |-> "avg_cadence",    mask |-> 8,    clear |-> FALSE, width |-> 2, mul |-> 50,  signed |-> FALSE],
    [kind |-> "distance",       mask |-> 16,   clear |-> FALSE, width |-> 3, mul |-> 10,  signed |-> FALSE],
    [kind |-> "resistance",     mask |-> 32,   clear |-> FALSE, width |-> 2, mul |-> 100, signed |-> TRUE],
    [kind |-> "power",          mask |-> 64,   clear |-> FALSE, width |-> 2, mul |-> 100, signed |-> TRUE],
    [kind |-> "avg_power",      mask |-> 128,  clear |-> FALSE, width |-> 2, mul |-> 100, signed |-> TRUE],
    [kind |-> "energy",         mask |-> 256,  clear |-> FALSE, width |-> 2, mul |-> 100, signed |-> FALSE],
    [kind |-> "heart_rate",     mask |-> 512,  clear |-> FALSE, width |-> 1, mul |-> 100, signed |-> FALSE],
    [kind |-> "met",            mask |-> 1024, clear |-> FALSE, width |-> 2, mul |-> 1,   signed |-> FALSE],
    [kind |-> "elapsed_time",   mask |-> 2048, clear |-> FALSE, width |-> 2, mul |-> 100, signed |-> FALSE],
    [kind |-> "remaining_time", mask |-> 4096, clear |-> FALSE, width |-> 2, mul |-> 100, signed |-> FALSE] >>

\* the presence condition of field i under a flag word
FieldPresent(flags, i) ==
    IF FieldTable[i].clear THEN BitAnd(flags, FieldTable[i].mask) = 0
    ELSE BitAnd(flags, FieldTable[i].mask) # 0

\* a field value without its scale
FieldValue_Raw(i, b) ==
    IF FieldTable[i].signed THEN FromBytesLESigned(b) ELSE FromBytesLE(b)

\* the decoded value (in hundredths) of field i read from its bytes
FieldValue(i, b) ==
    (IF FieldTable[i].signed THEN FromBytesLESigned(b) ELSE FromBytesLE(b))
        * FieldTable[i].mul

RECURSIVE DecodeFrom_AdvanceOnSkip(_, _, _, _, _)
\* a cursor walk that moves the cursor past a field that does not fit
DecodeFrom_AdvanceOnSkip(data, flags, i, index, detected_fields) ==
    IF i > Len(FieldTable) THEN detected_fields
    ELSE IF FieldPresent(flags, i)
         THEN DecodeFrom_AdvanceOnSkip(data, flags, i + 1, index + FieldTable[i].width,
                  IF index + FieldTable[i].width <= Len(data)
                  THEN Put(detected_fields, FieldTable[i].kind,
                           FieldValue(i, Slice(data, index, index + FieldTable[i].width)))
                  ELSE detected_fields)
         ELSE DecodeFrom_AdvanceOnSkip(data, flags, i + 1, index, detected_fields)

RECURSIVE DecodeFrom(_, _, _, _, _)
\* the cursor walk: field i is read at index when it is present and fits,
\* and is skipped without moving the cursor when it does not fit
DecodeFrom(data, flags, i, index, detected_fields) ==
    IF i > Len(FieldTable) THEN detected_fields
    ELSE IF FieldPresent(flags, i) /\ index + FieldTable[i].width <= Len(data)
         THEN DecodeFrom(data, flags, i + 1, index + FieldTable[i].width,
                         Put(detected_fields, FieldTable[i].kind,
                             FieldValue(i, Slice(data, index, index + FieldTable[i].width))))
         ELSE DecodeFrom(data, flags, i + 1, index, detected_fields)

\* a decoder whose cursor starts at the flag word
DecodeFields_FromZero(data, flags) == DecodeFrom(data, flags, 1, 0, EmptyDict)

\* the detected_fields dict process_indoor_bike_data returns
DecodeFields(data, flags) == DecodeFrom(data, flags, 1, 2, EmptyDict)

---------------------------------------------------------------------------
(* Resistance Correlator: the tracking block inside the resistance branch  *)
(* of process_indoor_bike_data.                                            *)

\* 'SET_RESISTANCE_LEVEL' in command_type, over the names the driver uses
HasResistanceLevel(command_type) == command_type \in {"SET_RESISTANCE_LEVEL"}

\* 'SET_SIM_PARAMS' in command_type, over the names the driver uses
HasSimParams(command_type) == command_type \in {"SET_SIM_PARAMS", "SET_SIM_PARAMS(10%)"}

\* a tracking that stores only the first value it reads
TrackResistanceRT_StoreFirst(rt, resistance) ==
    LET changed == rt.last_resistance # NoneInt /\ resistance # rt.last_resistance
        rt1 == IF changed THEN [rt EXCEPT !.resistance_change_detected = TRUE] ELSE rt
        rt2 == IF changed /\ rt.resistance_command_pending
               THEN [rt1 EXCEPT !.resistance_command_pending = FALSE,
                                !.last_command_type = NoneStr]
               ELSE rt1
    IN  IF rt.last_resistance = NoneInt
        THEN [rt2 EXCEPT !.last_resistance = resistance]
        ELSE rt2

\* resistance_tracking after a resistance field with value resistance was read
TrackResistanceRT(rt, resistance) ==
    LET changed == rt.last_resistance # NoneInt /\ resistance # rt.last_resistance
        rt1 == IF changed THEN [rt EXCEPT !.resistance_change_detected = TRUE] ELSE rt
        rt2 == IF changed /\ rt.resistance_command_pending
               THEN [rt1 EXCEPT !.resistance_command_pending = FALSE,
                                !.last_command_type = NoneStr]
               ELSE rt1
    IN  [rt2 EXCEPT !.last_resistance = resistance]

\* a tracking that records the change it sees while idle as an anomaly
TrackResistanceTR_RecordsAnomaly(rt, tr, resistance) ==
    IF rt.last_resistance # NoneInt /\ resistance # rt.last_resistance
    THEN IF rt.resistance_command_pending
         THEN IF HasResistanceLevel(rt.last_command_type)
              THEN Put(tr, "resistance_control", TRUE)
              ELSE IF HasSimParams(rt.last_command_type)
                   THEN Put(tr, "sim_mode_support", TRUE)
                   ELSE tr
         ELSE Put(tr, "issues_found",
                  Append(tr["issues_found"],
                         "Resistance changed without any resistance-related command"))
    ELSE tr

\* a tracking that confirms only a command whose success acknowledgement is
\* in the ledger
TrackResistanceTR_NeedsAck(rt, tr, resistance) ==
    IF rt.last_resistance # NoneInt /\ resistance # rt.last_resistance
       /\ rt.resistance_command_pending
       /\ Get(tr["control_commands_tested"], rt.last_command_type, FALSE)
    THEN IF HasResistanceLevel(rt.last_command_type)
         THEN Put(tr, "resistance_control", TRUE)
         ELSE IF HasSimParams(rt.last_command_type)
              THEN Put(tr, "sim_mode_support", TRUE)
              ELSE tr
    ELSE tr

\* a tracking that credits sim_mode_support to every command that is not
\* SET_RESISTANCE_LEVEL
TrackResistanceTR_PowerAsSim(rt, tr, resistance) ==
    IF rt.last_resistance # NoneInt /\ resistance # rt.last_resistance
       /\ rt.resistance_command_pending
    THEN IF HasResistanceLevel(rt.last_command_type)
         THEN Put(tr, "resistance_control", TRUE)
         ELSE Put(tr, "sim_mode_support", TRUE)
    ELSE tr

\* test_results after a resistance field with value resistance was read
TrackResistanceTR(rt, tr, resistance) ==
    IF rt.last_resistance # NoneInt /\ resistance # rt.last_resistance
       /\ rt.resistance_command_pending
    THEN IF HasResistanceLevel(rt.last_command_type)
         THEN Put(tr, "resistance_control", TRUE)
         ELSE IF HasSimParams(rt.last_command_type)
              THEN Put(tr, "sim_mode_support", TRUE)
              ELSE tr
    ELSE tr

\* a call that tracks the resistance but writes nothing to test_results
ProcessDecoded_NoRecord(fields, rt, tr) ==
    IF "resistance" \in DOMAIN fields
    THEN [fields |-> fields,
          rt |-> TrackResistanceRT(rt, fields["resistance"] \div 100),
          tr |-> tr]
    ELSE [fields |-> fields, rt |-> rt, tr |-> tr]

\* one call of process_indoor_bike_data: the returned fields and the two
\* shared dicts as the call leaves them
ProcessDecoded(fields, rt, tr) ==
    IF "resistance" \in DOMAIN fields
    THEN [fields |-> fields,
          rt |-> TrackResistanceRT(rt, fields["resistance"] \div 100),
          tr |-> TrackResistanceTR(rt, tr, fields["resistance"] \div 100)]
    ELSE [fields |-> fields, rt |-> rt, tr |-> tr]

ProcessIndoorBikeData(data, flags, rt, tr) ==
    ProcessDecoded(DecodeFields(data, flags), rt, tr)

---------------------------------------------------------------------------
(* Merge Buffer *)

EmptyBuffer == [data |-> NoneData, flags |-> NoneInt, detected_fields |-> EmptyDict]

CanMergePackets(flags1, flags2) ==
    IF flags1 = NoneInt \/ flags2 = NoneInt THEN FALSE
    ELSE ~(BitAnd(flags1, flags2) # 0)

MergedFlags(flags1, flags2) == BitOr(flags1, flags2)

\* the merged byte string: packet 1 with its flag prefix replaced, followed
\* by packet 2 beyond its flag prefix
MergePacketData(data1, flags1, data2, flags2) ==
    ToBytesLE(MergedFlags(flags1, flags2), 2) \o Slice(data1, 2, Len(data1))
        \o (IF Len(data2) > 2 THEN Slice(data2, 2, Len(data2)) ELSE <<>>)

\* test_results['data_fields_detected'].update(detected_fields)
\* a finalize that assigns the sample instead of updating the mapping
FinalizePacketProcessing_Assigns(tr, detected_fields) ==
    Put(tr, "data_fields_detected", detected_fields)

FinalizePacketProcessing(tr, detected_fields) ==
    Put(tr, "data_fields_detected", Update(tr["data_fields_detected"], detected_fields))

---------------------------------------------------------------------------
(* Inputs the BLE adapter can deliver *)

\* the notifications the device sends, as <<flags, base, cut>>: the flag
\* word, the raw value profile (the field of bit i carries raw value
\* base + i, so that different field kinds carry different values) and the
\* number of bytes missing at the end (0: the payload is complete)
NotificationInputs == { <<0, 0, 0>>, <<4, 0, 0>>, <<33, 0, 0>>, <<33, 3, 0>>,
                        <<4, 0, 2>> }

RECURSIVE PayloadFrom(_, _, _)
\* the field bytes a device sends for a flag word, in bit order
PayloadFrom(flags, base, i) ==
    IF i > Len(FieldTable) THEN <<>>
    ELSE (IF FieldPresent(flags, i)
          THEN ToBytesLE((base + i - 1) % Pow256(FieldTable[i].width), FieldTable[i].width)
          ELSE <<>>) \o PayloadFrom(flags, base, i + 1)

\* [flagsLo, flagsHi, field bytes...] with the last cut bytes missing
Notification(flags, base, cut) ==
    LET full == ToBytesLE(flags, 2) \o PayloadFrom(flags, base, 1)
    IN  SubSeq(full, 1, Len(full) - cut)

RECURSIVE PayloadLength(_, _)
\* the number of field bytes a flag word calls for
PayloadLength(flags, i) ==
    IF i > Len(FieldTable) THEN 0
    ELSE (IF FieldPresent(flags, i) THEN FieldTable[i].width ELSE 0)
             + PayloadLength(flags, i + 1)

\* the payload carries exactly the bytes its own flag word calls for
WellFormed(data) ==
    /\ Len(data) >= 2
    /\ Len(data) = 2 + PayloadLength(FromBytesLE(Slice(data, 0, 2)), 1)

\* request opcodes of the acknowledgements the device sends
AckOpcodes == {4, 17, 153}

\* result codes of the acknowledgements (0x01 is success)
AckResults == {1, 2}

HexDigits == <<"0", "1", "2", "3", "4", "5", "6", "7", "8", "9",
               "a", "b", "c", "d", "e", "f">>

\* a lookup without the UNKNOWN fallback
CommandName_NoFallback(request_opcode) ==
    CASE request_opcode = 0  -> "REQUEST_CONTROL"
      [] request_opcode = 1  -> "RESET"
      [] request_opcode = 4  -> "SET_RESISTANCE_LEVEL"
      [] request_opcode = 5  -> "SET_TARGET_POWER"
      [] request_opcode = 7  -> "START"
      [] request_opcode = 8  -> "STOP"
      [] request_opcode = 17 -> "SET_SIM_PARAMS"
      [] OTHER -> "REQUEST_CONTROL"

\* the command_name lookup of the control-point branch
CommandName(request_opcode) ==
    CASE request_opcode = 0  -> "REQUEST_CONTROL"
      [] request_opcode = 1  -> "RESET"
      [] request_opcode = 4  -> "SET_RESISTANCE_LEVEL"
      [] request_opcode = 5  -> "SET_TARGET_POWER"
      [] request_opcode = 7  -> "START"
      [] request_opcode = 8  -> "STOP"
      [] request_opcode = 17 -> "SET_SIM_PARAMS"
      [] OTHER -> "UNKNOWN_0x" \o HexDigits[(request_opcode \div 16) + 1]
                               \o HexDigits[(request_opcode % 16) + 1]

---------------------------------------------------------------------------
(* notification_handler *)

\* the merge path leaving the current packet's fields in the buffer
HandleMerge_KeepFields(cur, mrg) ==
    [pb |-> [data |-> NoneData, flags |-> NoneInt, detected_fields |-> cur.fields],
     rt |-> mrg.rt,
     tr |-> FinalizePacketProcessing(mrg.tr, mrg.fields),
     op |-> "merge", current_fields |-> cur.fields, emitted |-> mrg.fields]

\* the merge path (lines 262-288), given the re-decoded merged packet mrg
HandleMerge(cur, mrg) ==
    [pb |-> EmptyBuffer,
     rt |-> mrg.rt,
     tr |-> FinalizePacketProcessing(mrg.tr, mrg.fields),
     op |-> "merge", current_fields |-> cur.fields, emitted |-> mrg.fields]

\* a path that overwrites a pending packet it cannot merge
HandleDecoded_DropsPending(data, flags, cur, pb) ==
    IF pb.data # NoneData /\ CanMergePackets(pb.flags, flags)
    THEN HandleMerge(cur,
             ProcessIndoorBikeData(MergePacketData(pb.data, pb.flags, data, flags),
                                   MergedFlags(pb.flags, flags), cur.rt, cur.tr))
    ELSE [pb |-> [data |-> data, flags |-> flags, detected_fields |-> cur.fields],
          rt |-> cur.rt, tr |-> cur.tr,
          op |-> "buffer", current_fields |-> cur.fields,
          emitted |-> EmptyDict]

\* a path that records the current packet's fields while buffering it
HandleDecoded_EmitOnBuffer(data, flags, cur, pb) ==
    IF pb.data # NoneData
    THEN IF CanMergePackets(pb.flags, flags)
         THEN HandleMerge(cur,
                  ProcessIndoorBikeData(MergePacketData(pb.data, pb.flags, data, flags),
                                        MergedFlags(pb.flags, flags), cur.rt, cur.tr))
         ELSE [pb |-> [data |-> data, flags |-> flags, detected_fields |-> cur.fields],
               rt |-> cur.rt,
               tr |-> FinalizePacketProcessing(cur.tr, pb.detected_fields),
               op |-> "replace", current_fields |-> cur.fields,
               emitted |-> pb.detected_fields]
    ELSE [pb |-> [data |-> data, flags |-> flags, detected_fields |-> cur.fields],
          rt |-> cur.rt, tr |-> FinalizePacketProcessing(cur.tr, cur.fields),
          op |-> "buffer", current_fields |-> cur.fields,
          emitted |-> EmptyDict]

\* the path after the current packet was decoded into cur (lines 257-295)
HandleDecoded(data, flags, cur, pb) ==
    IF pb.data # NoneData
    THEN IF CanMergePackets(pb.flags, flags)
         THEN HandleMerge(cur,
                  ProcessIndoorBikeData(MergePacketData(pb.data, pb.flags, data, flags),
                                        MergedFlags(pb.flags, flags), cur.rt, cur.tr))
         ELSE [pb |-> [data |-> data, flags |-> flags, detected_fields |-> cur.fields],
               rt |-> cur.rt,
               tr |-> FinalizePacketProcessing(cur.tr, pb.detected_fields),
               op |-> "replace", current_fields |-> cur.fields,
               emitted |-> pb.detected_fields]
    ELSE [pb |-> [data |-> data, flags |-> flags, detected_fields |-> cur.fields],
          rt |-> cur.rt, tr |-> cur.tr,
          op |-> "buffer", current_fields |-> cur.fields,
          emitted |-> EmptyDict]

\* the Indoor Bike Data branch: everything the handler leaves behind
HandleBikeDataFlags(data, flags, pb, rt, tr) ==
    HandleDecoded(data, flags, ProcessIndoorBikeData(data, flags, rt, tr), pb)

\* a handler that keeps the merged packet in the buffer
HandleBikeData_KeepsMerged(data, pb, rt, tr) ==
    LET r == HandleBikeDataFlags(data, FromBytesLE(Slice(data, 0, 2)), pb, rt, tr)
    IN  IF r.op = "merge"
        THEN [r EXCEPT !.pb = [data |-> MergePacketData(pb.data, pb.flags, data,
                                                        FromBytesLE(Slice(data, 0, 2))),
                               flags |-> MergedFlags(pb.flags, FromBytesLE(Slice(data, 0, 2))),
                               detected_fields |-> r.emitted]]
        ELSE r

HandleBikeData(data, pb, rt, tr) ==
    HandleBikeDataFlags(data, FromBytesLE(Slice(data, 0, 2)), pb, rt, tr)

\* a control-point branch that ignores the result code
HandleControlPointRT_AnyResult(data, rt) ==
    IF Len(data) >= 3 /\ data[2] \in {4, 5, 17}
    THEN [rt EXCEPT !.resistance_command_pending = TRUE,
                    !.last_command_type = CommandName(data[2])]
    ELSE rt

\* the control-point branch: resistance_tracking after the acknowledgement
HandleControlPointRT(data, rt) ==
    IF Len(data) >= 3 /\ data[3] = 1 /\ data[2] \in {4, 5, 17}
    THEN [rt EXCEPT !.resistance_command_pending = TRUE,
                    !.last_command_type = CommandName(data[2])]
    ELSE rt

\* a control-point branch that takes a success acknowledgement of
\* SET_RESISTANCE_LEVEL as the confirmation
HandleControlPointTR_Confirms(data, tr) ==
    IF Len(data) >= 3
    THEN Put(IF data[2] = 4 /\ data[3] = 1
             THEN Put(tr, "resistance_control", TRUE) ELSE tr,
             "control_commands_tested",
             Put(tr["control_commands_tested"], CommandName(data[2]), data[3] = 1))
    ELSE tr

\* the control-point branch: test_results after the acknowledgement
HandleControlPointTR(data, tr) ==
    IF Len(data) >= 3
    THEN Put(tr, "control_commands_tested",
             Put(tr["control_commands_tested"], CommandName(data[2]), data[3] = 1))
    ELSE tr

---------------------------------------------------------------------------
(* Names standing for the string literals of the source *)

\* compatibility_level values
IMPOSSIBLE == "IMPOSSIBLE"
UNVERIFIABLE_CUSTOM_PROTOCOL == "UNVERIFIABLE_CUSTOM_PROTOCOL"
VENDOR_APP_REQUIRED == "VENDOR_APP_REQUIRED"
PARTIAL == "PARTIAL"
PARTIAL_FIXABLE == "PARTIAL_FIXABLE"
FULL == "FULL"
LIMITED == "LIMITED"
Unset == ""

\* the closed verdict enumeration
Verdicts == {IMPOSSIBLE, UNVERIFIABLE_CUSTOM_PROTOCOL, VENDOR_APP_REQUIRED,
             PARTIAL, PARTIAL_FIXABLE, FULL}

\* protocol_type values
P_FTMS == "FTMS (standard)"
P_CSC == "CSC (standard)"
P_MOBI == "MOBI (custom)"
P_REBORN == "REBORN (custom)"
P_TACX == "TACX (custom)"
P_OTHER == "other"
P_UNKNOWN == "UNKNOWN"

\* service UUIDs
FTMS_SERVICE_UUID == "00001826-0000-1000-8000-00805f9b34fb"
CSC_SERVICE_UUID == "00001816-0000-1000-8000-00805f9b34fb"
MOBI_SERVICE_UUID == "0000ffe0-0000-1000-8000-00805f9b34fb"
REBORN_SERVICE_UUID == "00010203-0405-0607-0809-0a0b0c0d1910"
TACX_SERVICE_UUID == "6e40fec1-b5a3-f393-e0a9-e50e24dcca9e"

\* the anomaly text the classifier looks for in issues_found
ANOMALY_TEXT == "Resistance changed without any resistance-related command"

---------------------------------------------------------------------------
(* scanner.detection_callback: the device_protocols entry of a device that *)
(* advertises the services adv                                             *)

ScannerPrimaryProtocol(adv) ==
    IF FTMS_SERVICE_UUID \in adv THEN P_FTMS
    ELSE IF MOBI_SERVICE_UUID \in adv THEN P_MOBI
    ELSE IF REBORN_SERVICE_UUID \in adv THEN P_REBORN
    ELSE IF TACX_SERVICE_UUID \in adv THEN P_TACX
    ELSE IF CSC_SERVICE_UUID \in adv THEN P_CSC
    ELSE P_OTHER

ScannerProtocols(adv) ==
    (IF FTMS_SERVICE_UUID \in adv THEN {"FTMS"} ELSE {})
    \cup (IF CSC_SERVICE_UUID \in adv THEN {"CSC"} ELSE {})
    \cup (IF MOBI_SERVICE_UUID \in adv THEN {"MOBI"} ELSE {})
    \cup (IF REBORN_SERVICE_UUID \in adv THEN {"REBORN"} ELSE {})
    \cup (IF TACX_SERVICE_UUID \in adv THEN {"TACX"} ELSE {})

\* service sets a discovered device advertises (scan keeps a device only
\* when it advertises one of the five supported services)
AdvertisedSets == {{FTMS_SERVICE_UUID}, {CSC_SERVICE_UUID}, {MOBI_SERVICE_UUID},
                   {CSC_SERVICE_UUID, TACX_SERVICE_UUID}}

\* GATT services the connected device turns out to expose beyond those
ExtraServiceSets == {{}, {CSC_SERVICE_UUID}}

---------------------------------------------------------------------------
(* Session driver: is_yafit_interactive.main and                           *)
(* device_test.connect_and_test_device                                     *)

\* test_results['issues_found'].append(issue), creating the list if missing
AppendIssue(tr, issue) ==
    Put(tr, "issues_found", Append(Get(tr, "issues_found", <<>>), issue))

AppendReason(tr, reason) ==
    Put(tr, "reasons", Append(Get(tr, "reasons", <<>>), reason))

\* the module-level test_results of is_yafit_interactive
InitialTestResults ==
    [device_info |-> EmptyDict,
     connection_status |-> FALSE,
     protocol_type |-> "",
     features_supported |-> EmptyDict,
     data_fields_detected |-> EmptyDict,
     control_commands_tested |-> EmptyDict,
     support_ranges |-> EmptyDict,
     control_tests |-> EmptyDict,
     sim_mode_support |-> FALSE,
     resistance_control |-> FALSE,
     power_control |-> FALSE,
     compatibility_level |-> Unset,
     issues_found |-> <<>>,
     reasons |-> <<>>]

\* the module-level resistance_tracking of is_yafit_interactive
InitialResistanceTracking ==
    [last_resistance |-> NoneInt,
     expected_resistance |-> NoneInt,
     resistance_change_detected |-> FALSE,
     command_sent_time |-> NoneInt,
     last_command_type |-> NoneStr,
     resistance_command_pending |-> FALSE]

\* an except-clause that leaves connection_status as it is
ExceptHandler_KeepsStatus(tr) == AppendIssue(tr, "Connection/testing error")

\* the except-clause of connect_and_test_device
ExceptHandler(tr) ==
    AppendIssue(Put(tr, "connection_status", FALSE), "Connection/testing error")

\* test_results after the connection is up and the protocol is identified
\* (lines 95-170), for a device whose scan entry came from adv
ConnectedResults(tr, adv, detected_services) ==
    LET t1 == Put(Put(tr, "connection_status", TRUE), "device_info",
                  [name |-> "bike", address |-> "addr", services |-> detected_services])
        t2 == IF "issues_found" \in DOMAIN t1 THEN t1 ELSE Put(t1, "issues_found", <<>>)
        t3 == IF "reasons" \in DOMAIN t2 THEN t2 ELSE Put(t2, "reasons", <<>>)
        t4 == IF CSC_SERVICE_UUID \in detected_services
              THEN Put(t3, "features_supported",
                       Put(Put(Get(t3, "features_supported", EmptyDict),
                               "CSC Measurement", TRUE), "CSC Feature", TRUE))
              ELSE t3
    IN  Put(Put(t4, "protocol_type", ScannerPrimaryProtocol(adv)),
            "supported_protocols", ScannerProtocols(adv))

SupportedProtocolNames == {P_FTMS, P_CSC, P_MOBI, P_REBORN, P_TACX}

\* a marking that keeps the kind of a command that is still pending
SendControlCommand_KeepsPending(rt, command_name, now) ==
    IF command_name \in {"SET_RESISTANCE_LEVEL", "SET_TARGET_POWER",
                         "SET_SIM_PARAMS", "SET_SIM_PARAMS(10%)"}
       /\ ~rt.resistance_command_pending
    THEN [rt EXCEPT !.resistance_command_pending = TRUE,
                    !.last_command_type = command_name,
                    !.command_sent_time = now]
    ELSE rt

\* send_control_command: the Correlator marking made before the GATT write
SendControlCommand(rt, command_name, now) ==
    IF command_name \in {"SET_RESISTANCE_LEVEL", "SET_TARGET_POWER",
                         "SET_SIM_PARAMS", "SET_SIM_PARAMS(10%)"}
    THEN [rt EXCEPT !.resistance_command_pending = TRUE,
                    !.last_command_type = command_name,
                    !.command_sent_time = now]
    ELSE rt

\* the FTMS test script of connect_and_test_device, one entry per await
Script == << [do |-> "subscribe_cp",  name |-> ""],
             [do |-> "send",          name |-> "REQUEST_CONTROL"],
             [do |-> "read_features", name |-> ""],
             [do |-> "read_ranges",   name |-> ""],
             [do |-> "test_command",  name |-> "SET_RESISTANCE_LEVEL"],
             [do |-> "test_command",  name |-> "SET_TARGET_POWER"],
             [do |-> "test_command",  name |-> "SET_SIM_PARAMS"],
             [do |-> "send",          name |-> "RESET"],
             [do |-> "send",          name |-> "START"],
             [do |-> "send",          name |-> "SET_SIM_PARAMS(10%)"],
             [do |-> "user_input",    name |-> ""],
             [do |-> "send",          name |-> "STOP"] >>

\* FTMS feature words the device reports
FeatureWords == {130}

FeatureNames == <<"average_speed", "cadence", "total_distance", "inclination",
                  "elevation_gain", "pace", "step_count", "resistance_level",
                  "stride_count", "expended_energy", "heart_rate",
                  "metabolic_equivalent", "elapsed_time", "remaining_time",
                  "power_measurement", "force_on_belt">>

FeatureMask == <<1, 2, 4, 8, 16, 32, 64, 128, 256, 512, 1024, 2048, 4096,
                 8192, 16384, 32768>>

\* the features dict built from feature_bits
FeaturesFromBits(feature_bits) ==
    [n \in {FeatureNames[i] : i \in {j \in 1..16 : BitAnd(feature_bits, FeatureMask[j]) # 0}} |-> TRUE]

\* range characteristics that can be read
RangeSets == {{"resistance"}}

---------------------------------------------------------------------------
(* Compatibility Classifier: analyze_result.analyze_test_results.  The     *)
(* operator gives the caller's dict as the call leaves it.                 *)

R_CONNECTION_FAILED == "connection failed"
R_NO_SPEED_CADENCE == "essential speed/cadence sensor or data not found"
R_CUSTOM_PROTOCOL == "custom protocol cannot be verified: "
R_UNSUPPORTED_PROTOCOL == "unsupported protocol"
R_CSC_ONLY == "CSC protocol provides speed/cadence only"
R_FULL == "speed and cadence present and simulation mode works"
R_FIXABLE == "resistance changes without a command; fixable"
R_PARTIAL == "speed and cadence present but simulation mode not supported"
R_PARTIAL_ERROR == "speed and cadence present but checking simulation mode failed"
R_NOT_BOTH == "speed or cadence not detected"
R_ANALYSIS_ERROR == "error during analysis"

\* a classifier that puts its reasons in front of those already in the record
SetVerdict_PrependsReasons(tr, level, reasons) ==
    Put(Put(tr, "compatibility_level", level), "reasons",
        reasons \o Get(tr, "reasons", <<>>))

\* a classifier that appends its reasons to those already in the record
SetVerdict_AppendsReasons(tr, level, reasons) ==
    Put(Put(tr, "compatibility_level", level), "reasons",
        Get(tr, "reasons", <<>>) \o reasons)

\* a classifier that keeps a verdict the driver has already written
SetVerdict_KeepsDriverVerdict(tr, level, reasons) ==
    IF Get(tr, "compatibility_level", Unset) \in {LIMITED, VENDOR_APP_REQUIRED}
    THEN tr
    ELSE Put(Put(tr, "compatibility_level", level), "reasons", reasons)

SetVerdict(tr, level, reasons) ==
    Put(Put(tr, "compatibility_level", level), "reasons", reasons)

\* Python's  t in s  for strings
Contains(s, t) ==
    \E i \in 1..(Len(s) - Len(t) + 1) : SubSeq(s, i, i + Len(t) - 1) = t

\* '1816' in str(service).lower() or 'cycling_speed_and_cadence' in ...
\* (the service strings of constants.py are lower case already)
IsCscServiceString(service) ==
    Contains(service, "1816") \/ Contains(service, "cycling_speed_and_cadence")

\* the issue is the anomaly text, nothing around it
IssueHasAnomalyText_Equals(issue) == issue = ANOMALY_TEXT

\* 'Resistance changed without any resistance-related command' in issue
IssueHasAnomalyText(issue) == Contains(issue, ANOMALY_TEXT)

RECURSIVE AnyAnomaly(_)
\* any(ANOMALY_TEXT in issue for issue in issues_found): "yes", "no", or
\* "raise" when the scan meets a None entry before a matching one
AnyAnomaly(issues_found) ==
    IF issues_found = <<>> THEN "no"
    ELSE IF Head(issues_found) = NoneStr THEN "raise"
    ELSE IF IssueHasAnomalyText(Head(issues_found)) THEN "yes"
    ELSE AnyAnomaly(Tail(issues_found))

\* x or {} for a dict-valued entry
OrEmpty(d) == IF d = NoneDict THEN EmptyDict ELSE d

\* rules 3-6 with a FULL verdict that also asks for resistance_control and
\* for a non-zero speed
AnalyzeProtocol_ReadsControlAndValues(tr) ==
    LET protocol_type == Get(tr, "protocol_type", "")
        detected_fields == OrEmpty(Get(tr, "data_fields_detected", NoneDict))
        has_speed_and_cadence == "speed" \in DOMAIN detected_fields
                                 /\ "cadence" \in DOMAIN detected_fields
        sim_working == /\ Get(tr, "sim_mode_support", FALSE)
                       /\ Get(tr, "resistance_control", FALSE)
                       /\ Get(detected_fields, "speed", 0) # 0
        any_anomaly == AnyAnomaly(Get(tr, "issues_found", <<>>))
    IN  IF protocol_type \in {P_MOBI, P_REBORN, P_TACX}
        THEN SetVerdict(tr, UNVERIFIABLE_CUSTOM_PROTOCOL, <<R_CUSTOM_PROTOCOL \o protocol_type>>)
        ELSE IF protocol_type \notin {P_FTMS, P_CSC}
        THEN SetVerdict(tr, IMPOSSIBLE, <<R_UNSUPPORTED_PROTOCOL>>)
        ELSE IF protocol_type = P_CSC
        THEN SetVerdict(tr, PARTIAL, <<R_CSC_ONLY>>)
        ELSE IF has_speed_and_cadence /\ sim_working
        THEN SetVerdict(tr, FULL, <<R_FULL>>)
        ELSE IF has_speed_and_cadence /\ ~sim_working
        THEN IF any_anomaly = "yes" THEN SetVerdict(tr, PARTIAL_FIXABLE, <<R_FIXABLE>>)
             ELSE IF any_anomaly = "no" THEN SetVerdict(tr, PARTIAL, <<R_PARTIAL>>)
             ELSE SetVerdict(tr, PARTIAL, <<R_PARTIAL_ERROR>>)
        ELSE SetVerdict(tr, IMPOSSIBLE, <<R_NOT_BOTH>>)

\* rules 3-6, reached once the sensor check has passed
AnalyzeProtocol(tr) ==
    LET protocol_type == Get(tr, "protocol_type", "")
        detected_fields == OrEmpty(Get(tr, "data_fields_detected", NoneDict))
        has_speed_and_cadence == "speed" \in DOMAIN detected_fields
                                 /\ "cadence" \in DOMAIN detected_fields
        sim_working == Get(tr, "sim_mode_support", FALSE)
        any_anomaly == AnyAnomaly(Get(tr, "issues_found", <<>>))
    IN  IF protocol_type \in {P_MOBI, P_REBORN, P_TACX}
        THEN SetVerdict(tr, UNVERIFIABLE_CUSTOM_PROTOCOL, <<R_CUSTOM_PROTOCOL \o protocol_type>>)
        ELSE IF protocol_type \notin {P_FTMS, P_CSC}
        THEN SetVerdict(tr, IMPOSSIBLE, <<R_UNSUPPORTED_PROTOCOL>>)
        ELSE IF protocol_type = P_CSC
        THEN SetVerdict(tr, PARTIAL, <<R_CSC_ONLY>>)
        ELSE IF has_speed_and_cadence /\ sim_working
        THEN SetVerdict(tr, FULL, <<R_FULL>>)
        ELSE IF has_speed_and_cadence /\ ~sim_working
        THEN IF any_anomaly = "yes" THEN SetVerdict(tr, PARTIAL_FIXABLE, <<R_FIXABLE>>)
             ELSE IF any_anomaly = "no" THEN SetVerdict(tr, PARTIAL, <<R_PARTIAL>>)
             ELSE SetVerdict(tr, PARTIAL, <<R_PARTIAL_ERROR>>)
        ELSE SetVerdict(tr, IMPOSSIBLE, <<R_NOT_BOTH>>)

AnalyzeTestResults(tr) ==
    IF DOMAIN tr = {}
    THEN tr   \* 'if not test_results': the defaults are bound to the local name only
    ELSE IF ~Get(tr, "connection_status", FALSE)
    THEN SetVerdict(tr, IMPOSSIBLE, <<R_CONNECTION_FAILED>>)
    ELSE LET device_info == OrEmpty(Get(tr, "device_info", NoneDict))
             services == Get(device_info, "services", {})
             has_csc_service == \E service \in services : IsCscServiceString(service)
             features_supported == OrEmpty(Get(tr, "features_supported", NoneDict))
             has_csc_features == Get(features_supported, "CSC Measurement", FALSE)
                                 \/ Get(features_supported, "CSC Feature", FALSE)
             has_csc_sensor == has_csc_service \/ has_csc_features
             early == Get(tr, "data_fields_detected", EmptyDict)
         IN  IF early = NoneDict
             THEN \* 'speed' in None raises; the outer except-clause answers
                  SetVerdict(tr, IMPOSSIBLE, <<R_ANALYSIS_ERROR>>)
             ELSE IF ~(has_csc_sensor
                       \/ ("speed" \in DOMAIN early /\ "cadence" \in DOMAIN early))
             THEN SetVerdict(tr, IMPOSSIBLE, <<R_NO_SPEED_CADENCE>>)
             ELSE AnalyzeProtocol(tr)

---------------------------------------------------------------------------
(* The session as a state machine.                                         *)
(*   pc: "main"        main() before a device is selected                  *)
(*       "connect"     connect_and_test_device entered, connecting         *)
(*       "csc_probe"   sensor-only branch, before its return               *)
(*       "handles"     FTMS branch, looking up the two characteristics     *)
(*       "testing"     subscribed; step is the next entry of Script        *)
(*       "finally"     the finally-clause, with a normal return pending    *)
(*       "finally_kbi" the finally-clause, with KeyboardInterrupt pending  *)
(*       "returned"    back in main(), before generate_report              *)
(*       "interrupted" main()'s KeyboardInterrupt handler                  *)
(*       "done"        main() has returned                                 *)
(*       "classify" / "classified" / "reclassified"  bare calls of         *)
(*                     analyze_test_results                                *)

\* op: the path taken; prev: the Merge Buffer before the call; prevOp: the
\* path that had stored prev; data: the bytes handled; current_fields: their
\* decoding; emitted: the sample folded into the record by the call
History(op, prev, prevOp, data, current_fields, emitted) ==
    [op |-> op, prev |-> prev, prevOp |-> prevOp, data |-> data,
     current_fields |-> current_fields, emitted |-> emitted]

NoHistory == History("none", EmptyBuffer, "none", <<>>, EmptyDict, EmptyDict)

\* held: the notifications (by arrival number) whose bytes are in the Merge
\* Buffer; folded: for each notification so far, the number of samples handed
\* to finalize_packet_processing that it was part of
NoContrib == [held |-> {}, folded |-> <<>>]

CountFold(folded, into) ==
    [i \in DOMAIN folded |-> folded[i] + IF i \in into THEN 1 ELSE 0]

\* the account after the handler took path op for notification number
\* Len(c.folded) + 1 and left the buffer pb2
AfterNotification(c, op, pb2) ==
    LET n == Len(c.folded) + 1
        into == CASE op = "merge"   -> c.held \cup {n}
                  [] op = "replace" -> c.held
                  [] OTHER          -> {}
    IN  [held |-> IF pb2.data = NoneData THEN {}
                  ELSE IF op = "merge" THEN c.held \cup {n} ELSE {n},
         folded |-> CountFold(Append(c.folded, 0), into)]

\* the account after cleanup_packet_buffer found the buffer pb and left pb2
AfterCleanup(c, pb, pb2) ==
    [held |-> IF pb2.data = NoneData THEN {} ELSE c.held,
     folded |-> CountFold(c.folded, IF pb.data # NoneData THEN c.held ELSE {})]

\* the entries of the Observation Record the Correlator and the
\* control-point branch can write, and the record of commands sent
CorrelatorView(tr) ==
    [resistance_control |-> tr["resistance_control"],
     sim_mode_support |-> tr["sim_mode_support"],
     power_control |-> tr["power_control"],
     issues_found |-> tr["issues_found"],
     control_commands_tested |-> tr["control_commands_tested"],
     control_tests |-> Get(tr, "control_tests", EmptyDict)]

\* the shared dicts as a handler call finds them
Snapshot == [rt |-> resistance_tracking, tr |-> CorrelatorView(test_results)]

NoSnapshot == [rt |-> InitialResistanceTracking, tr |-> CorrelatorView(InitialTestResults)]

Init ==
    /\ pc = "main"
    /\ test_results = InitialTestResults
    /\ resistance_tracking = InitialResistanceTracking
    /\ packet_buffer = EmptyBuffer
    /\ step = 0
    /\ nNotifs = 0
    /\ nAcks = 0
    /\ nFaults = 0
    /\ sessions = 0
    /\ ending = "none"
    /\ analyzeCalls = 0
    /\ analyzed = NoneDict
    /\ flushed = NoneDict
    /\ pendingOp = "none"
    /\ before = NoSnapshot
    /\ carried = EmptyDict
    /\ contrib = NoContrib
    /\ last = NoHistory

\* main(): the scan finds no device, main() returns
MainNoDevices ==
    /\ pc = "main"
    /\ pc' = "done"
    /\ last' = NoHistory
    /\ UNCHANGED <<test_results, resistance_tracking, packet_buffer, step, counters, hist>>

\* main(): the user answers CANCEL to the device prompt
MainSelectCancel ==
    /\ pc = "main"
    /\ pc' = "interrupted"
    /\ last' = NoHistory
    /\ UNCHANGED <<test_results, resistance_tracking, packet_buffer, step, counters, hist>>

\* main(): a device is selected and connect_and_test_device is called
MainSelectDevice ==
    /\ pc = "main"
    /\ pc' = "connect"
    /\ sessions' = sessions + 1
    /\ last' = NoHistory
    /\ UNCHANGED <<test_results, resistance_tracking, packet_buffer, step, counters,
                   ending, analyzeCalls, analyzed, flushed, pendingOp, before, carried, contrib>>

\* BleakClient fails to connect: the except-clause runs
ConnectFail ==
    /\ pc = "connect"
    /\ test_results' = ExceptHandler(test_results)
    /\ pc' = "finally"
    /\ ending' = "error"
    /\ last' = NoHistory
    /\ UNCHANGED <<resistance_tracking, packet_buffer, step, counters,
                   sessions, analyzeCalls, analyzed, flushed, pendingOp, before, carried, contrib>>

\* the connection is up; protocol identification and the three-way branch
ConnectOk ==
    /\ pc = "connect"
    /\ \E adv \in AdvertisedSets, extra \in ExtraServiceSets :
       \E tr \in {ConnectedResults(test_results, adv, adv \cup extra)} :
          IF ScannerPrimaryProtocol(adv) \notin SupportedProtocolNames
          THEN /\ test_results' =
                    Put(AppendReason(AppendIssue(tr, "Unsupported protocol detected"),
                                     "unsupported protocol; test a device with one of the five"),
                        "compatibility_level", IMPOSSIBLE)
               /\ pc' = "finally"
               /\ ending' = "return"
          ELSE IF "FTMS" \in ScannerProtocols(adv)
          THEN /\ test_results' = tr
               /\ pc' = "handles"
               /\ ending' = ending
          ELSE IF "CSC" \in ScannerProtocols(adv)
          THEN /\ test_results' = AppendReason(tr, "CSC protocol: only speed/cadence data usable")
               /\ pc' = "csc_probe"
               /\ ending' = ending
          ELSE /\ test_results' =
                    AppendReason(Put(tr, "compatibility_level", VENDOR_APP_REQUIRED),
                                 "vendor app recommended")
               /\ pc' = "finally"
               /\ ending' = "return"
    /\ last' = NoHistory
    /\ UNCHANGED <<resistance_tracking, packet_buffer, step, counters,
                   sessions, analyzeCalls, analyzed, flushed, pendingOp, before, carried, contrib>>

\* sensor-only branch: the CSC subscription succeeds or raises, then return
CscProbe ==
    /\ pc = "csc_probe"
    /\ \/ test_results' = Put(test_results, "compatibility_level", LIMITED)
       \/ test_results' = Put(AppendIssue(test_results, "CSC characteristics not found"),
                              "compatibility_level", IMPOSSIBLE)
    /\ pc' = "finally"
    /\ ending' = "return"
    /\ last' = NoHistory
    /\ UNCHANGED <<resistance_tracking, packet_buffer, step, counters,
                   sessions, analyzeCalls, analyzed, flushed, pendingOp, before, carried, contrib>>

\* FTMS branch: both characteristics are found and Indoor Bike Data is subscribed
HandlesOk ==
    /\ pc = "handles"
    /\ pc' = "testing"
    /\ step' = 1
    /\ last' = NoHistory
    /\ UNCHANGED <<test_results, resistance_tracking, packet_buffer, counters, hist>>

\* FTMS branch: a characteristic is missing, the driver returns
HandlesFail ==
    /\ pc = "handles"
    /\ test_results' = AppendIssue(test_results, "FTMS characteristics not found")
    /\ pc' = "finally"
    /\ ending' = "return"
    /\ last' = NoHistory
    /\ UNCHANGED <<resistance_tracking, packet_buffer, step, counters,
                   sessions, analyzeCalls, analyzed, flushed, pendingOp, before, carried, contrib>>

AtScript(do) == pc = "testing" /\ step <= Len(Script) /\ Script[step].do = do

\* start_notify on the control point
DriverSubscribeCP ==
    /\ AtScript("subscribe_cp")
    /\ step' = step + 1
    /\ last' = NoHistory
    /\ UNCHANGED <<pc, test_results, resistance_tracking, packet_buffer, counters, hist>>

\* send_control_command called directly: the write succeeds
DriverSend ==
    /\ AtScript("send")
    /\ resistance_tracking' = SendControlCommand(resistance_tracking, Script[step].name, step)
    /\ step' = step + 1
    /\ last' = NoHistory
    /\ UNCHANGED <<pc, test_results, packet_buffer, counters, hist>>

\* send_control_command called directly: the write raises, the except-clause runs
DriverSendRaises ==
    /\ AtScript("send")
    /\ resistance_tracking' = SendControlCommand(resistance_tracking, Script[step].name, step)
    /\ test_results' = ExceptHandler(test_results)
    /\ pc' = "finally"
    /\ ending' = "error"
    /\ last' = NoHistory
    /\ UNCHANGED <<packet_buffer, step, counters,
                   sessions, analyzeCalls, analyzed, flushed, pendingOp, before, carried, contrib>>

\* control_tests[command_name] = outcome
RecordControlTest(tr, command_name, outcome) ==
    Put(tr, "control_tests",
        Put(Get(tr, "control_tests", EmptyDict), command_name, outcome))

\* test_control_command: the write succeeds
DriverTestCommand ==
    /\ AtScript("test_command")
    /\ resistance_tracking' = SendControlCommand(resistance_tracking, Script[step].name, step)
    /\ test_results' = RecordControlTest(test_results, Script[step].name, "OK")
    /\ step' = step + 1
    /\ last' = NoHistory
    /\ UNCHANGED <<pc, packet_buffer, counters, hist>>

\* a test_control_command whose except-clause takes the pending mark back
DriverTestCommandRaises_ClearsPending ==
    /\ AtScript("test_command")
    /\ nFaults < MaxFaults
    /\ resistance_tracking' = [resistance_tracking EXCEPT
                                  !.resistance_command_pending = FALSE,
                                  !.last_command_type = NoneStr]
    /\ test_results' = RecordControlTest(test_results, Script[step].name, "Failed")
    /\ step' = step + 1
    /\ nFaults' = nFaults + 1
    /\ last' = NoHistory
    /\ UNCHANGED <<pc, packet_buffer, nNotifs, nAcks, hist>>

\* test_control_command: the write raises and the exception is swallowed
DriverTestCommandRaises ==
    /\ AtScript("test_command")
    /\ nFaults < MaxFaults
    /\ resistance_tracking' = SendControlCommand(resistance_tracking, Script[step].name, step)
    /\ test_results' = RecordControlTest(test_results, Script[step].name, "Failed")
    /\ step' = step + 1
    /\ nFaults' = nFaults + 1
    /\ last' = NoHistory
    /\ UNCHANGED <<pc, packet_buffer, nNotifs, nAcks, hist>>

\* the FTMS feature characteristic is read
DriverReadFeatures ==
    /\ AtScript("read_features")
    /\ \E feature_bits \in FeatureWords :
          test_results' = Put(test_results, "features_supported",
                              FeaturesFromBits(feature_bits))
    /\ step' = step + 1
    /\ last' = NoHistory
    /\ UNCHANGED <<pc, resistance_tracking, packet_buffer, counters, hist>>

\* reading the FTMS feature characteristic raises; the exception is swallowed
DriverReadFeaturesRaises ==
    /\ AtScript("read_features")
    /\ nFaults < MaxFaults
    /\ test_results' = AppendIssue(test_results, "Could not read FTMS features")
    /\ step' = step + 1
    /\ nFaults' = nFaults + 1
    /\ last' = NoHistory
    /\ UNCHANGED <<pc, resistance_tracking, packet_buffer, nNotifs, nAcks, hist>>

\* the range characteristics are read; those in ranges answer, the reads of
\* the others raise and are swallowed one by one
DriverReadRanges ==
    /\ AtScript("read_ranges")
    /\ \E ranges \in RangeSets :
          test_results' = Put(test_results, "support_ranges",
                              Update(Get(test_results, "support_ranges", EmptyDict),
                                     [r \in ranges |-> TRUE]))
    /\ step' = step + 1
    /\ last' = NoHistory
    /\ UNCHANGED <<pc, resistance_tracking, packet_buffer, counters, hist>>

\* wait_for_user_input returns
DriverUserContinue ==
    /\ AtScript("user_input")
    /\ step' = step + 1
    /\ last' = NoHistory
    /\ UNCHANGED <<pc, test_results, resistance_tracking, packet_buffer, counters, hist>>

\* wait_for_user_input raises KeyboardInterrupt, which no except-clause of
\* connect_and_test_device catches
DriverUserCancel ==
    /\ AtScript("user_input")
    /\ pc' = "finally_kbi"
    /\ ending' = "cancel"
    /\ last' = NoHistory
    /\ UNCHANGED <<test_results, resistance_tracking, packet_buffer, step, counters,
                   sessions, analyzeCalls, analyzed, flushed, pendingOp, before, carried, contrib>>

\* the script is over and the async-with block is left
DriverEnd ==
    /\ pc = "testing"
    /\ step = Len(Script) + 1
    /\ pc' = "finally"
    /\ ending' = "normal"
    /\ last' = NoHistory
    /\ UNCHANGED <<test_results, resistance_tracking, packet_buffer, step, counters,
                   sessions, analyzeCalls, analyzed, flushed, pendingOp, before, carried, contrib>>

\* notification_handler called for an Indoor Bike Data notification
BikeDataNotification ==
    /\ pc = "testing"
    /\ \E in \in NotificationInputs :
       \E data \in {Notification(in[1], in[2], in[3])} :
       \E r \in {HandleBikeData(data, packet_buffer, resistance_tracking, test_results)} :
          /\ packet_buffer' = r.pb
          /\ resistance_tracking' = r.rt
          /\ test_results' = r.tr
          /\ pendingOp' = IF r.op = "merge" THEN "none" ELSE r.op
          /\ last' = History(r.op, packet_buffer, pendingOp, data,
                             r.current_fields, r.emitted)
    /\ nNotifs' = nNotifs + 1
    /\ UNCHANGED <<pc, step, nAcks, nFaults,
                   sessions, ending, analyzeCalls, analyzed, flushed>>

\* notification_handler called for a control-point acknowledgement
ControlPointNotification ==
    /\ pc = "testing"
    /\ step > 1
    /\ \E request_opcode \in AckOpcodes, result_code \in AckResults :
       \E data \in {<<128, request_opcode, result_code>>} :
          /\ resistance_tracking' = HandleControlPointRT(data, resistance_tracking)
          /\ test_results' = HandleControlPointTR(data, test_results)
          /\ last' = History("ack", packet_buffer, pendingOp, data, EmptyDict, EmptyDict)
    /\ nAcks' = nAcks + 1
    /\ UNCHANGED <<pc, packet_buffer, step, nNotifs, nFaults,
                   sessions, ending, analyzeCalls, analyzed, flushed, pendingOp>>

NotifyBikeData == nNotifs < MaxNotifs /\ BikeDataNotification /\ UNCHANGED <<before, carried, contrib>>

NotifyControlPoint == nAcks < MaxAcks /\ ControlPointNotification /\ UNCHANGED <<before, carried, contrib>>

\* a cleanup that drops the pending fields
CleanupTestResults_NoFold(pb, tr) == tr

\* test_results after cleanup_packet_buffer
CleanupTestResults(pb, tr) ==
    IF pb.data # NoneData THEN FinalizePacketProcessing(tr, pb.detected_fields) ELSE tr

\* a cleanup that leaves the buffer as it is
CleanupPacketBuffer_NoClear(pb) == pb

\* packet_buffer after cleanup_packet_buffer
CleanupPacketBuffer(pb) ==
    IF pb.data # NoneData THEN EmptyBuffer ELSE pb

\* the finally-clause of connect_and_test_device
Cleanup ==
    /\ pc \in {"finally", "finally_kbi"}
    /\ test_results' = CleanupTestResults(packet_buffer, test_results)
    /\ packet_buffer' = CleanupPacketBuffer(packet_buffer)
    /\ pc' = IF pc = "finally" THEN "returned" ELSE "interrupted"
    /\ flushed' = packet_buffer.detected_fields
    /\ pendingOp' = "none"
    /\ last' = History("flush", packet_buffer, pendingOp, <<>>, EmptyDict,
                       packet_buffer.detected_fields)
    /\ contrib' = AfterCleanup(contrib, packet_buffer, packet_buffer')
    /\ UNCHANGED <<resistance_tracking, step, counters,
                   sessions, ending, analyzeCalls, analyzed, before, carried>>

\* main(): generate_report, whose first statement is analyze_test_results
GenerateReport ==
    /\ pc = "returned"
    /\ test_results' = AnalyzeTestResults(test_results)
    /\ analyzeCalls' = analyzeCalls + 1
    /\ analyzed' = test_results
    /\ pc' = "done"
    /\ last' = History("analyze", packet_buffer, pendingOp, <<>>, EmptyDict, EmptyDict)
    /\ UNCHANGED <<resistance_tracking, packet_buffer, step, counters,
                   sessions, ending, flushed, pendingOp, before, carried, contrib>>

\* an except KeyboardInterrupt clause that generates the report
MainInterrupted_Reports ==
    /\ pc = "interrupted"
    /\ test_results' = AnalyzeTestResults(test_results)
    /\ analyzeCalls' = analyzeCalls + 1
    /\ analyzed' = test_results
    /\ pc' = "done"
    /\ last' = History("analyze", packet_buffer, pendingOp, <<>>, EmptyDict, EmptyDict)
    /\ UNCHANGED <<resistance_tracking, packet_buffer, step, counters,
                   sessions, ending, flushed, pendingOp, before, carried, contrib>>

\* main(): the except KeyboardInterrupt clause; main() returns
MainInterrupted ==
    /\ pc = "interrupted"
    /\ pc' = "done"
    /\ last' = NoHistory
    /\ UNCHANGED <<test_results, resistance_tracking, packet_buffer, step, counters, hist>>

Next ==
    \/ MainNoDevices \/ MainSelectCancel \/ MainSelectDevice
    \/ ConnectFail \/ ConnectOk \/ CscProbe \/ HandlesOk \/ HandlesFail
    \/ DriverSubscribeCP \/ DriverSend \/ DriverSendRaises
    \/ DriverTestCommand \/ DriverTestCommandRaises
    \/ DriverReadFeatures \/ DriverReadFeaturesRaises
    \/ DriverReadRanges \/ DriverUserContinue
    \/ DriverUserCancel \/ DriverEnd
    \/ NotifyBikeData \/ NotifyControlPoint
    \/ Cleanup \/ GenerateReport \/ MainInterrupted

Spec == Init /\ [][Next]_vars

---------------------------------------------------------------------------
(* The telemetry stream of one FTMS session: the device advertises and     *)
(* exposes the Fitness Machine service only, both characteristics are      *)
(* found and no GATT operation fails.  The state is the one Spec reaches   *)
(* by MainSelectDevice, ConnectOk and HandlesOk for that device.           *)

InitStream ==
    /\ pc = "testing"
    /\ test_results = ConnectedResults(InitialTestResults, {FTMS_SERVICE_UUID},
                                       {FTMS_SERVICE_UUID})
    /\ resistance_tracking = InitialResistanceTracking
    /\ packet_buffer = EmptyBuffer
    /\ step = 1
    /\ nNotifs = 0
    /\ nAcks = 0
    /\ nFaults = 0
    /\ sessions = 1
    /\ ending = "none"
    /\ analyzeCalls = 0
    /\ analyzed = NoneDict
    /\ flushed = NoneDict
    /\ pendingOp = "none"
    /\ before = NoSnapshot
    /\ carried = EmptyDict
    /\ contrib = NoContrib
    /\ last = NoHistory

StreamBikeData == nNotifs < MaxStreamNotifs /\ BikeDataNotification /\ UNCHANGED <<before, carried, contrib>>

StreamControlPoint == nAcks < MaxStreamAcks /\ ControlPointNotification /\ UNCHANGED <<before, carried, contrib>>

NextStream ==
    \/ DriverSubscribeCP \/ DriverSend \/ DriverTestCommand
    \/ DriverReadFeatures \/ DriverReadRanges \/ DriverUserContinue
    \/ DriverUserCancel \/ DriverEnd
    \/ StreamBikeData \/ StreamControlPoint
    \/ Cleanup \/ GenerateReport \/ MainInterrupted

SpecStream == InitStream /\ [][NextStream]_vars

---------------------------------------------------------------------------
(* The Resistance Correlator in one FTMS session: the same session as      *)
(* SpecStream, with GATT write failures, and with the shared dicts as each *)
(* notification_handler call finds them kept in before.                    *)

CorrelateBikeData ==
    nNotifs < MaxCorrNotifs /\ BikeDataNotification /\ before' = Snapshot
        /\ UNCHANGED <<carried, contrib>>

CorrelateControlPoint ==
    nAcks < MaxCorrAcks /\ ControlPointNotification /\ before' = Snapshot
        /\ UNCHANGED <<carried, contrib>>

NextCorrelator ==
    \/ DriverSubscribeCP \/ DriverSend \/ DriverSendRaises
    \/ DriverTestCommand \/ DriverTestCommandRaises
    \/ DriverReadFeatures \/ DriverReadRanges \/ DriverUserContinue
    \/ DriverUserCancel \/ DriverEnd
    \/ CorrelateBikeData \/ CorrelateControlPoint
    \/ Cleanup \/ GenerateReport \/ MainInterrupted

SpecCorrelator == InitStream /\ [][NextCorrelator]_vars

---------------------------------------------------------------------------
(* The classifier as a function of its argument: the dict is drawn from    *)
(* the records below, each key present or missing on its own, and          *)
(* analyze_test_results is called once.                                    *)

Entry(k, v) == [x \in {k} |-> v]

ConnectionOptions ==
    {EmptyDict, Entry("connection_status", FALSE), Entry("connection_status", TRUE)}

DeviceInfoOptions ==
    {EmptyDict,
     Entry("device_info", NoneDict),
     Entry("device_info", [name |-> "bike", address |-> "addr"]),
     Entry("device_info", [name |-> "bike", address |-> "addr",
                           services |-> {FTMS_SERVICE_UUID}]),
     Entry("device_info", [name |-> "bike", address |-> "addr",
                           services |-> {FTMS_SERVICE_UUID, CSC_SERVICE_UUID}])}

FeatureOptions ==
    {EmptyDict,
     Entry("features_supported", FeaturesFromBits(130)),
     Entry("features_supported", Entry("CSC Measurement", TRUE))}

DetectedFieldOptions ==
    {EmptyDict,
     Entry("data_fields_detected", NoneDict),
     Entry("data_fields_detected", EmptyDict),
     Entry("data_fields_detected", [speed |-> 2500]),
     Entry("data_fields_detected", [speed |-> 2500, cadence |-> 6000])}

ProtocolOptions ==
    {EmptyDict} \cup {Entry("protocol_type", p) :
                        p \in {"", P_FTMS, P_CSC, P_MOBI, P_OTHER}}

SimOptions ==
    {EmptyDict, Entry("sim_mode_support", FALSE), Entry("sim_mode_support", TRUE)}

IssueOptions ==
    {EmptyDict,
     Entry("issues_found", <<>>),
     Entry("issues_found", <<"Connection/testing error">>),
     Entry("issues_found", <<"Could not read FTMS features",
                             "WARNING: " \o ANOMALY_TEXT \o "!">>),
     Entry("issues_found", <<NoneStr, "WARNING: " \o ANOMALY_TEXT \o "!">>)}

ClassifierInputs ==
    { Update(c, Update(d, Update(f, Update(g, Update(p, Update(m, i)))))) :
        c \in ConnectionOptions, d \in DeviceInfoOptions, f \in FeatureOptions,
        g \in DetectedFieldOptions, p \in ProtocolOptions, m \in SimOptions,
        i \in IssueOptions }

InitClassify ==
    /\ pc = "classify"
    /\ test_results \in ClassifierInputs
    /\ resistance_tracking = InitialResistanceTracking
    /\ packet_buffer = EmptyBuffer
    /\ step = 0
    /\ nNotifs = 0
    /\ nAcks = 0
    /\ nFaults = 0
    /\ sessions = 0
    /\ ending = "none"
    /\ analyzeCalls = 0
    /\ analyzed = NoneDict
    /\ flushed = NoneDict
    /\ pendingOp = "none"
    /\ before = NoSnapshot
    /\ carried = EmptyDict
    /\ contrib = NoContrib
    /\ last = NoHistory

\* analyze_test_results(test_results)
Classify ==
    /\ pc = "classify"
    /\ test_results' = AnalyzeTestResults(test_results)
    /\ analyzeCalls' = analyzeCalls + 1
    /\ analyzed' = test_results
    /\ pc' = "classified"
    /\ last' = History("analyze", packet_buffer, pendingOp, <<>>, EmptyDict, EmptyDict)
    /\ UNCHANGED <<resistance_tracking, packet_buffer, step, counters,
                   sessions, ending, flushed, pendingOp, before, carried, contrib>>

\* analyze_test_results(test_results) called again on the classified record
Reclassify ==
    /\ pc = "classified"
    /\ test_results' = AnalyzeTestResults(test_results)
    /\ analyzeCalls' = analyzeCalls + 1
    /\ analyzed' = test_results
    /\ pc' = "reclassified"
    /\ last' = History("analyze", packet_buffer, pendingOp, <<>>, EmptyDict, EmptyDict)
    /\ UNCHANGED <<resistance_tracking, packet_buffer, step, counters,
                   sessions, ending, flushed, pendingOp, before, carried, contrib>>

NextClassify == Classify \/ Reclassify

SpecClassify == InitClassify /\ [][NextClassify]_vars

---------------------------------------------------------------------------
(* A session in which the values the notifications carry are recorded per  *)
(* field kind, up to the teardown flush.                                   *)

SessionBikeData ==
    /\ nNotifs < MaxSessionNotifs
    /\ BikeDataNotification
    /\ carried' = Update(carried, last'.current_fields)
    /\ UNCHANGED <<before, contrib>>

SessionControlPoint ==
    nAcks < MaxSessionAcks /\ ControlPointNotification /\ UNCHANGED <<before, carried, contrib>>

NextSession ==
    \/ DriverSubscribeCP \/ DriverSend \/ DriverTestCommand
    \/ DriverReadFeatures \/ DriverReadRanges \/ DriverUserContinue
    \/ DriverUserCancel \/ DriverEnd
    \/ SessionBikeData \/ SessionControlPoint
    \/ Cleanup \/ GenerateReport \/ MainInterrupted

SpecSession == InitStream /\ [][NextSession]_vars

---------------------------------------------------------------------------
(* A session in which every notification is followed to the sample it is   *)
(* folded with, up to the teardown flush.                                  *)

FoldBikeData ==
    /\ nNotifs < MaxFoldNotifs
    /\ BikeDataNotification
    /\ contrib' = AfterNotification(contrib, last'.op, packet_buffer')
    /\ UNCHANGED <<before, carried>>

FoldControlPoint ==
    nAcks < MaxFoldAcks /\ ControlPointNotification /\ UNCHANGED <<before, carried, contrib>>

NextFold ==
    \/ DriverSubscribeCP \/ DriverSend \/ DriverTestCommand
    \/ DriverReadFeatures \/ DriverReadRanges \/ DriverUserContinue
    \/ DriverUserCancel \/ DriverEnd
    \/ FoldBikeData \/ FoldControlPoint
    \/ Cleanup \/ GenerateReport \/ MainInterrupted

SpecFold == InitStream /\ [][NextFold]_vars

---------------------------------------------------------------------------
(* notification_handler with its try/except, for any content of the two    *)
(* shared dicts, and the session websocket_server starts.  websocket_server *)
(* imports data_handler and calls connect_and_test_device without           *)
(* assigning data_handler.test_results or data_handler.resistance_tracking, *)
(* so the handler works on the empty module-level dicts of data_handler.    *)

\* the key a subscript read d[k] raises KeyError for, or NoneStr
MissingKey(d, k) == IF k \in DOMAIN d THEN NoneStr ELSE k

\* process_indoor_bike_data reads resistance_tracking['last_resistance']
\* (line 117) once a resistance field is decoded
DecodeError(data, flags, rt) ==
    IF "resistance" \in DOMAIN DecodeFields(data, flags)
    THEN MissingKey(rt, "last_resistance") ELSE NoneStr

\* the try-block left by an exception: the state it leaves and the error
Raised(pb, rt, tr, current_fields, error) ==
    [pb |-> pb, rt |-> rt, tr |-> tr, op |-> "raise",
     current_fields |-> current_fields, emitted |-> EmptyDict, error |-> error]

\* the try-block run to its end
Returned(r) ==
    [pb |-> r.pb, rt |-> r.rt, tr |-> r.tr, op |-> r.op,
     current_fields |-> r.current_fields, emitted |-> r.emitted, error |-> NoneStr]

\* the merge path of the try-block (lines 262-288)
TryMerge(data, flags, cur, pb) ==
    LET merged_data == MergePacketData(pb.data, pb.flags, data, flags)
        merged_flags == MergedFlags(pb.flags, flags)
    IN  IF DecodeError(merged_data, merged_flags, cur.rt) # NoneStr
        THEN Raised(pb, cur.rt, cur.tr, cur.fields,
                    DecodeError(merged_data, merged_flags, cur.rt))
        ELSE LET mrg == ProcessIndoorBikeData(merged_data, merged_flags, cur.rt, cur.tr)
             IN  IF MissingKey(mrg.tr, "data_fields_detected") # NoneStr
                 THEN Raised(pb, mrg.rt, mrg.tr, cur.fields, "data_fields_detected")
                 ELSE Returned(HandleMerge(cur, mrg))

\* the try-block of the Indoor Bike Data branch (lines 249-295)
TryBikeData(data, pb, rt, tr) ==
    LET flags == FromBytesLE(Slice(data, 0, 2))
    IN  IF DecodeError(data, flags, rt) # NoneStr
        THEN Raised(pb, rt, tr, EmptyDict, DecodeError(data, flags, rt))
        ELSE LET cur == ProcessIndoorBikeData(data, flags, rt, tr)
             IN  IF pb.data = NoneData
                 THEN Returned(HandleDecoded(data, flags, cur, pb))
                 ELSE IF CanMergePackets(pb.flags, flags)
                      THEN TryMerge(data, flags, cur, pb)
                      ELSE IF MissingKey(cur.tr, "data_fields_detected") # NoneStr
                           THEN Raised(pb, cur.rt, cur.tr, cur.fields, "data_fields_detected")
                           ELSE Returned(HandleDecoded(data, flags, cur, pb))

\* the try-block of the control-point branch (lines 209-248)
TryControlPoint(data, pb, rt, tr) ==
    IF Len(data) >= 3 /\ MissingKey(tr, "control_commands_tested") # NoneStr
    THEN Raised(pb, rt, tr, EmptyDict, "control_commands_tested")
    ELSE [pb |-> pb, rt |-> HandleControlPointRT(data, rt),
          tr |-> HandleControlPointTR(data, tr), op |-> "ack",
          current_fields |-> EmptyDict, emitted |-> EmptyDict, error |-> NoneStr]

\* the except-clause (lines 297-299): the append reads
\* test_results['issues_found'], so it raises KeyError itself when the key
\* is missing, and that error leaves notification_handler
ExceptClause(t) ==
    IF t.error = NoneStr THEN t
    ELSE IF MissingKey(t.tr, "issues_found") # NoneStr
         THEN [t EXCEPT !.op = "propagated", !.error = "issues_found"]
         ELSE [t EXCEPT !.op = "caught",
                        !.tr = AppendIssue(t.tr, "Notification processing error: '"
                                                     \o t.error \o "'")]

\* notification_handler(sender, data) as a whole
NotificationHandler(isControlPoint, data, pb, rt, tr) ==
    ExceptClause(IF isControlPoint THEN TryControlPoint(data, pb, rt, tr)
                 ELSE TryBikeData(data, pb, rt, tr))

\* connect_and_test_device called from _connect_device_sync, after both
\* start_notify calls: the handler's dicts are data_handler's own
InitServer ==
    /\ pc = "testing"
    /\ test_results = EmptyDict
    /\ resistance_tracking = EmptyDict
    /\ packet_buffer = EmptyBuffer
    /\ step = 2
    /\ nNotifs = 0
    /\ nAcks = 0
    /\ nFaults = 0
    /\ sessions = 1
    /\ ending = "none"
    /\ analyzeCalls = 0
    /\ analyzed = NoneDict
    /\ flushed = NoneDict
    /\ pendingOp = "none"
    /\ before = NoSnapshot
    /\ carried = EmptyDict
    /\ contrib = NoContrib
    /\ last = NoHistory

ServerHandled(h, data) ==
    /\ packet_buffer' = h.pb
    /\ resistance_tracking' = h.rt
    /\ test_results' = h.tr
    /\ pendingOp' = IF h.op = "merge" THEN "none"
                    ELSE IF h.op \in {"buffer", "replace"} THEN h.op ELSE pendingOp
    /\ last' = History(h.op, packet_buffer, pendingOp, data, h.current_fields, h.emitted)
    /\ UNCHANGED <<pc, step, nFaults, sessions, ending, analyzeCalls, analyzed,
                   flushed, before, carried, contrib>>

ServerBikeData ==
    /\ pc = "testing"
    /\ nNotifs < MaxServerNotifs
    /\ \E in \in NotificationInputs :
       \E data \in {Notification(in[1], in[2], in[3])} :
       \E h \in {NotificationHandler(FALSE, data, packet_buffer, resistance_tracking,
                                     test_results)} :
          ServerHandled(h, data)
    /\ nNotifs' = nNotifs + 1
    /\ UNCHANGED nAcks

ServerControlPoint ==
    /\ pc = "testing"
    /\ nAcks < MaxServerAcks
    /\ \E request_opcode \in AckOpcodes \cup {0}, result_code \in AckResults :
       \E data \in {<<128, request_opcode, result_code>>} :
       \E h \in {NotificationHandler(TRUE, data, packet_buffer, resistance_tracking,
                                     test_results)} :
          ServerHandled(h, data)
    /\ nAcks' = nAcks + 1
    /\ UNCHANGED nNotifs

\* the finally-clause: finalize_packet_processing raises inside
\* cleanup_packet_buffer before the buffer is cleared, and the clause's own
\* try/except (lines 483-487) swallows the error
ServerCleanup ==
    /\ pc = "testing"
    /\ pc' = "returned"
    /\ IF packet_buffer.data # NoneData
          /\ MissingKey(test_results, "data_fields_detected") # NoneStr
       THEN /\ last' = History("flush_failed", packet_buffer, pendingOp, <<>>,
                               EmptyDict, EmptyDict)
            /\ UNCHANGED <<test_results, packet_buffer, flushed, pendingOp>>
       ELSE /\ test_results' = CleanupTestResults(packet_buffer, test_results)
            /\ packet_buffer' = CleanupPacketBuffer(packet_buffer)
            /\ flushed' = packet_buffer.detected_fields
            /\ pendingOp' = "none"
            /\ last' = History("flush", packet_buffer, pendingOp, <<>>, EmptyDict,
                               packet_buffer.detected_fields)
    /\ UNCHANGED <<resistance_tracking, step, counters,
                   sessions, ending, analyzeCalls, analyzed, before, carried, contrib>>

NextServer == ServerBikeData \/ ServerControlPoint \/ ServerCleanup

SpecServer == InitServer /\ [][NextServer]_vars

---------------------------------------------------------------------------
(* The Flag Decoder on its own: process_indoor_bike_data is called once on *)
(* a payload, with the shared dicts as a session has them.                 *)

\* the payloads decoded, as <<flags, base, cut>> (see NotificationInputs):
\* every flag word over bits 0-12 with a low and a high value profile and
\* with up to MaxCut bytes missing, the payloads [04 00 64 00] and
\* [05 00 64 00], and bits 5-7 with raw values around 0x8000 and 0xFFFF
DecoderInputs ==
    ((0..MaxFlags) \X {10000} \X (0..MaxCut))
        \cup ((0..MaxFlags) \X {65520} \X {0})
        \cup {<<4, 100, 2>>, <<5, 98, 0>>, <<224, 32763, 0>>, <<224, 65530, 0>>,
              <<33, 0, 0>>}

\* the Correlator State the call finds: fresh, or a command pending with a
\* resistance recorded
DecoderTrackings ==
    {InitialResistanceTracking,
     [InitialResistanceTracking EXCEPT !.last_resistance = 5,
                                       !.resistance_command_pending = TRUE,
                                       !.last_command_type = "SET_RESISTANCE_LEVEL",
                                       !.command_sent_time = 5]}

InitDecode ==
    /\ pc = "decode"
    /\ test_results = ConnectedResults(InitialTestResults, {FTMS_SERVICE_UUID},
                                       {FTMS_SERVICE_UUID})
    /\ \E in \in DecoderInputs :
          /\ Len(Notification(in[1], in[2], in[3])) >= 2
          /\ last = History("input", EmptyBuffer, "none",
                            Notification(in[1], in[2], in[3]), EmptyDict, EmptyDict)
          /\ resistance_tracking \in
                (IF in[2] = 10000 THEN {InitialResistanceTracking} ELSE DecoderTrackings)
    /\ packet_buffer = EmptyBuffer
    /\ step = 0
    /\ nNotifs = 0
    /\ nAcks = 0
    /\ nFaults = 0
    /\ sessions = 1
    /\ ending = "none"
    /\ analyzeCalls = 0
    /\ analyzed = NoneDict
    /\ flushed = NoneDict
    /\ pendingOp = "none"
    /\ before = NoSnapshot
    /\ carried = EmptyDict
    /\ contrib = NoContrib

\* process_indoor_bike_data(data, flags) with flags = data[0:2]
Decode ==
    /\ pc = "decode"
    /\ \E r \in {ProcessIndoorBikeData(last.data, FromBytesLE(Slice(last.data, 0, 2)),
                                        resistance_tracking, test_results)} :
          /\ resistance_tracking' = r.rt
          /\ test_results' = r.tr
          /\ last' = History("decode", packet_buffer, "none", last.data,
                             r.fields, EmptyDict)
    /\ before' = Snapshot
    /\ pc' = "decoded"
    /\ UNCHANGED <<carried, contrib, packet_buffer, step, counters,
                   sessions, ending, analyzeCalls, analyzed, flushed, pendingOp>>

NextDecode == Decode

SpecDecode == InitDecode /\ [][NextDecode]_vars

---------------------------------------------------------------------------
(* Properties *)

\* every field of a, with its value, is in b
FieldsWithin(a, b) == \A k \in DOMAIN a : k \in DOMAIN b /\ b[k] = a[k]

\* m is the union of a and b keyed by field kind
IsUnionByKind(m, a, b) ==
    /\ DOMAIN m = (DOMAIN a) \cup (DOMAIN b)
    /\ FieldsWithin(a, m)
    /\ FieldsWithin(b, m)

\* the flag word of a notification
FlagsOf(data) == FromBytesLE(Slice(data, 0, 2))

\* C1: when two consecutive well-formed notifications with F1 AND F2 = 0
\* are merged, the decoding of the merged record is exactly the union, keyed
\* by field kind, of the decodings of the two notifications on their own.
C1_MergedDecodeIsUnion ==
    (last.op = "merge" /\ WellFormed(last.prev.data) /\ WellFormed(last.data))
        => IsUnionByKind(last.emitted, last.prev.detected_fields, last.current_fields)

\* C2: whenever the Merge Buffer combines two notifications, the field kinds
\* decoded from the buffered one and from the new one are disjoint.
C2_MergedKindsDisjoint ==
    last.op = "merge"
        => (DOMAIN last.prev.detected_fields) \cap (DOMAIN last.current_fields) = {}

\* C3: a notification whose flags overlap the buffered one's is not combined
\* with it: on that call the buffered fields are folded into the record as
\* they were decoded and the new notification becomes the pending entry; and
\* the fields of a notification made pending that way are in the sample that
\* is folded for it later.
C3_OverlapFinalizedSeparately ==
    /\ (last.op \in {"merge", "replace"}
        /\ BitAnd(last.prev.flags, FlagsOf(last.data)) # 0)
          => /\ last.op = "replace"
             /\ last.emitted = last.prev.detected_fields
             /\ FieldsWithin(last.prev.detected_fields,
                             test_results["data_fields_detected"])
             /\ packet_buffer = [data |-> last.data, flags |-> FlagsOf(last.data),
                                 detected_fields |-> last.current_fields]
    /\ (last.op \in {"merge", "replace", "flush"} /\ last.prevOp = "replace")
          => FieldsWithin(last.prev.detected_fields, last.emitted)

\* C4: the Merge Buffer holds zero or one pending notification (data is None
\* exactly when flags is None, and then no fields are buffered), and it is
\* empty right after a merge emission and right after the teardown flush.
C4_BufferZeroOrOne ==
    /\ packet_buffer.data = NoneData <=> packet_buffer.flags = NoneInt
    /\ packet_buffer.data = NoneData => packet_buffer.detected_fields = EmptyDict
    /\ last.op \in {"merge", "flush"} => packet_buffer = EmptyBuffer

C4_Witness == last.op = "merge" /\ last.prev.data # NoneData /\ packet_buffer = EmptyBuffer

\* C5: a notification still buffered at teardown is folded by the flush: the
\* buffer is empty afterwards and every field it carried is, with its value,
\* in data_fields_detected from then on, the final record included.
C5_FlushFoldsPending ==
    flushed # NoneDict
        => /\ packet_buffer = EmptyBuffer
           /\ FieldsWithin(flushed, test_results["data_fields_detected"])

C5_Witness == last.op = "flush" /\ last.prev.data # NoneData /\ flushed # EmptyDict

\* C6: on every way a session ends the teardown flush has run before the
\* classifier is called, and the classifier is never called while a
\* notification is pending in the Merge Buffer.
C6_FlushBeforeClassify ==
    /\ (ending # "none" /\ pc \in {"returned", "interrupted", "done"})
          => flushed # NoneDict
    /\ pc = "returned" => packet_buffer = EmptyBuffer
    /\ analyzeCalls > 0 => flushed # NoneDict
    /\ last.op = "analyze" => last.prev = EmptyBuffer

C6_Witness ==
    pc = "done" /\ analyzeCalls = 1 /\ flushed # NoneDict /\ flushed # EmptyDict

ClassifierKeys == {"connection_status", "device_info", "features_supported",
                   "data_fields_detected", "protocol_type", "sim_mode_support",
                   "issues_found"}

HasVerdictAndReasons(tr) ==
    /\ "compatibility_level" \in DOMAIN tr
    /\ tr["compatibility_level"] \in Verdicts
    /\ "reasons" \in DOMAIN tr
    /\ Len(tr["reasons"]) > 0

\* C8: for every record, the empty one and those with missing keys included,
\* the call leaves the record with one verdict of the enumeration in
\* compatibility_level and a non-empty reasons list.
C8_ClassifierTotal ==
    pc = "classified" => HasVerdictAndReasons(test_results)

\* C9: called with an empty record or a record lacking some keys, the
\* classifier leaves the record it was given with verdict IMPOSSIBLE and a
\* reason.
C9_PartialRecordImpossible ==
    (pc = "classified" /\ ClassifierKeys \ (DOMAIN analyzed) # {})
        => /\ HasVerdictAndReasons(test_results)
           /\ test_results["compatibility_level"] = IMPOSSIBLE

\* the six attributes of a record that carries all of them
Connected(r) == r["connection_status"]
SensorCapability(r) ==
    \/ (r["device_info"] # NoneDict /\ "services" \in DOMAIN r["device_info"]
        /\ CSC_SERVICE_UUID \in r["device_info"]["services"])
    \/ \E f \in {"CSC Measurement", "CSC Feature"} :
          f \in DOMAIN r["features_supported"] /\ r["features_supported"][f]
BothFields(r) == {"speed", "cadence"} \subseteq DOMAIN r["data_fields_detected"]
AnomalyRecorded(r) ==
    \E n \in 1..Len(r["issues_found"]) :
        Contains(r["issues_found"][n], ANOMALY_TEXT)

\* the record carries the six attributes, each of its own type
CompleteRecord(r) ==
    /\ ClassifierKeys \subseteq DOMAIN r
    /\ r["data_fields_detected"] # NoneDict
    /\ \A n \in 1..Len(r["issues_found"]) : r["issues_found"][n] # NoneStr

\* the verdict the six ordered rules prescribe
PrescribedVerdict(r) ==
    IF ~Connected(r) THEN IMPOSSIBLE
    ELSE IF ~SensorCapability(r) /\ ~BothFields(r) THEN IMPOSSIBLE
    ELSE IF r["protocol_type"] \in {P_MOBI, P_REBORN, P_TACX}
         THEN UNVERIFIABLE_CUSTOM_PROTOCOL
    ELSE IF r["protocol_type"] \notin {P_FTMS, P_CSC} THEN IMPOSSIBLE
    ELSE IF r["protocol_type"] = P_CSC THEN PARTIAL
    ELSE IF BothFields(r) /\ r["sim_mode_support"] THEN FULL
    ELSE IF BothFields(r) /\ AnomalyRecorded(r) THEN PARTIAL_FIXABLE
    ELSE IF BothFields(r) THEN PARTIAL
    ELSE IMPOSSIBLE

\* C10: for every combination of connection status, sensor capability,
\* detected speed/cadence fields, protocol type, sim_mode_support and
\* recorded anomalies, the classifier sets the verdict the six ordered rules
\* prescribe, the first matching rule winning.
C10_OrderedRules ==
    (pc = "classified" /\ CompleteRecord(analyzed))
        => test_results["compatibility_level"] = PrescribedVerdict(analyzed)

C10_Witness ==
    /\ pc = "classified"
    /\ CompleteRecord(analyzed)
    /\ test_results["compatibility_level"] = PARTIAL_FIXABLE

---------------------------------------------------------------------------
(* Properties of the Resistance Correlator, over SpecCorrelator *)

BikeOps == {"buffer", "replace", "merge"}

\* the latest handler call decoded a resistance field from its notification
ResistanceObserved ==
    last.op \in BikeOps /\ "resistance" \in DOMAIN last.current_fields

\* the value of that field
ObservedResistance == last.current_fields["resistance"] \div 100

\* that value differs from the one recorded before the call
ResistanceChanged ==
    /\ ResistanceObserved
    /\ before.rt.last_resistance # NoneInt
    /\ ObservedResistance # before.rt.last_resistance

\* the command kind was sent, its success acknowledgement was received and
\* it is the pending one, in the snapshot b
SentAndAcknowledged(b, kind) ==
    /\ b.rt.resistance_command_pending
    /\ b.rt.last_command_type = kind
    /\ kind \in DOMAIN b.tr.control_tests
    /\ b.tr.control_tests[kind] = "OK"
    /\ kind \in DOMAIN b.tr.control_commands_tested
    /\ b.tr.control_commands_tested[kind] = TRUE

\* C11: with resistance 5 recorded, SET_RESISTANCE_LEVEL sent and its success
\* acknowledgement received, a notification carrying resistance 8 sets
\* resistance_control and appends nothing to issues_found.
C11_CommandThenChangeConfirms ==
    (/\ ResistanceObserved
     /\ ObservedResistance = 8
     /\ before.rt.last_resistance = 5
     /\ SentAndAcknowledged(before, "SET_RESISTANCE_LEVEL"))
        => /\ test_results["resistance_control"] = TRUE
           /\ test_results["issues_found"] = before.tr.issues_found

C11_Witness ==
    /\ ResistanceObserved
    /\ ObservedResistance = 8
    /\ before.rt.last_resistance = 5
    /\ SentAndAcknowledged(before, "SET_RESISTANCE_LEVEL")
    /\ ~before.tr.resistance_control
    /\ test_results["resistance_control"] = TRUE

\* C12: a resistance value different from the recorded one, observed with no
\* command pending, appends an anomaly to issues_found, leaves the
\* Correlator idle and leaves resistance_control as it was.
C12_IdleChangeRecordsAnomaly ==
    (ResistanceChanged /\ ~before.rt.resistance_command_pending)
        => /\ Len(test_results["issues_found"]) > Len(before.tr.issues_found)
           /\ ~resistance_tracking.resistance_command_pending
           /\ test_results["resistance_control"] = before.tr.resistance_control

\* C13: handling a control-point acknowledgement, successful or failed,
\* changes neither the pending flag nor the pending kind, nor the last
\* resistance or the send time; an acknowledgement received while idle
\* leaves the Correlator idle.
C13_AckLeavesCorrelator ==
    last.op = "ack" => resistance_tracking = before.rt

\* the two capability flags of a record
CapabilityFlags(tr) == <<tr["resistance_control"], tr["sim_mode_support"]>>

\* the step handles a notification in which a resistance value different
\* from the last recorded one is decoded, from the packet itself or from
\* the merged packet
DecodesResistanceChange ==
    /\ last'.op \in BikeOps
    /\ \/ /\ "resistance" \in DOMAIN last'.current_fields
          /\ resistance_tracking.last_resistance # NoneInt
          /\ last'.current_fields["resistance"] \div 100
                # resistance_tracking.last_resistance
       \/ /\ last'.op = "merge"
          /\ "resistance" \in DOMAIN last'.emitted
          /\ "resistance" \in DOMAIN last'.current_fields
          /\ last'.emitted["resistance"] # last'.current_fields["resistance"]
       \/ /\ last'.op = "merge"
          /\ "resistance" \in DOMAIN last'.emitted
          /\ "resistance" \notin DOMAIN last'.current_fields
          /\ resistance_tracking.last_resistance # NoneInt
          /\ last'.emitted["resistance"] \div 100
                # resistance_tracking.last_resistance

\* C14: handling an acknowledgement leaves resistance_control and
\* sim_mode_support unchanged; the two flags change only in a step that
\* handles a notification in which a resistance value different from the
\* last recorded one is decoded.
C14_OnlyObservedChangeConfirms ==
    [][ /\ last'.op = "ack" => CapabilityFlags(test_results') = CapabilityFlags(test_results)
        /\ CapabilityFlags(test_results') # CapabilityFlags(test_results)
              => DecodesResistanceChange ]_vars

C14_Witness ==
    /\ last.op = "ack"
    /\ last.data = <<128, 4, 1>>
    /\ before.rt.last_command_type = "SET_RESISTANCE_LEVEL"
    /\ ~test_results["resistance_control"]

\* the resistance values carried by the notifications of the latest call
CarriedResistances ==
    {f["resistance"] \div 100 :
        f \in {g \in {last.prev.detected_fields, last.current_fields} :
                  "resistance" \in DOMAIN g}}

\* C15: a notification that is only buffered does not update the Correlator;
\* a call that emits a sample leaves in the Correlator a resistance value
\* that one of the notifications carried, or the one recorded before.
C15_CorrelatorSeesEmittedOnly ==
    /\ last.op = "buffer" => resistance_tracking = before.rt
    /\ last.op \in {"merge", "replace"}
          => resistance_tracking.last_resistance
                \in CarriedResistances \cup {before.rt.last_resistance}

\* C16: a changed resistance value observed while a command is pending
\* returns the Correlator to idle, sets resistance_control for
\* SET_RESISTANCE_LEVEL, sim_mode_support for SET_SIM_PARAMS and neither for
\* SET_TARGET_POWER; no handler call for Indoor Bike Data changes
\* power_control.
C16_ConfirmsByPendingKind ==
    /\ (ResistanceChanged /\ before.rt.resistance_command_pending)
          => /\ ~resistance_tracking.resistance_command_pending
             /\ resistance_tracking.last_command_type = NoneStr
             /\ test_results["resistance_control"]
                   = (before.tr.resistance_control
                      \/ Contains(before.rt.last_command_type, "SET_RESISTANCE_LEVEL"))
             /\ test_results["sim_mode_support"]
                   = (before.tr.sim_mode_support
                      \/ Contains(before.rt.last_command_type, "SET_SIM_PARAMS"))
    /\ last.op \in BikeOps
          => test_results["power_control"] = before.tr.power_control

C16_Witness ==
    /\ ResistanceChanged
    /\ before.rt.resistance_command_pending
    /\ before.rt.last_command_type = "SET_TARGET_POWER"
    /\ ~resistance_tracking.resistance_command_pending
    /\ ~test_results["resistance_control"]
    /\ ~test_results["sim_mode_support"]

\* the step is a call of send_control_command for the script's next command
SendsCommand ==
    /\ pc = "testing"
    /\ step <= Len(Script)
    /\ Script[step].do \in {"send", "test_command"}
    /\ step' = step + 1 \/ (pc' = "finally" /\ ending' = "error")

ResistanceRelated(command_name) ==
    \E cmd \in {"SET_RESISTANCE_LEVEL", "SET_TARGET_POWER", "SET_SIM_PARAMS"} :
        Contains(command_name, cmd)

\* C17: sending SET_RESISTANCE_LEVEL, SET_TARGET_POWER or SET_SIM_PARAMS
\* leaves the Correlator pending with that command, whatever it was before;
\* sending any other command leaves the Correlator State unchanged.
C17_SendSetsPendingKind ==
    [][ SendsCommand =>
          IF ResistanceRelated(Script[step].name)
          THEN /\ resistance_tracking'.resistance_command_pending
               /\ resistance_tracking'.last_command_type = Script[step].name
               /\ resistance_tracking'.last_resistance
                     = resistance_tracking.last_resistance
          ELSE resistance_tracking' = resistance_tracking ]_vars

C17_Witness ==
    /\ pc = "testing"
    /\ step = 7
    /\ nAcks = 0
    /\ nNotifs = 0
    /\ "SET_RESISTANCE_LEVEL" \in DOMAIN Get(test_results, "control_tests", EmptyDict)
    /\ resistance_tracking.resistance_command_pending
    /\ resistance_tracking.last_command_type = "SET_TARGET_POWER"

\* C18: the first resistance value observed, and a value equal to the
\* recorded one, change neither the pending flag, the pending kind, the two
\* capability flags nor issues_found.
C18_FirstOrEqualNoTransition ==
    (/\ ResistanceObserved
     /\ \/ before.rt.last_resistance = NoneInt
        \/ ObservedResistance = before.rt.last_resistance)
        => /\ resistance_tracking.resistance_command_pending
                 = before.rt.resistance_command_pending
           /\ resistance_tracking.last_command_type = before.rt.last_command_type
           /\ CapabilityFlags(test_results) = CapabilityFlags(before.tr)
           /\ test_results["issues_found"] = before.tr.issues_found

\* the resistance value the latest call decoded last
LastDecodedResistance ==
    IF last.op = "merge" /\ "resistance" \in DOMAIN last.emitted
    THEN last.emitted["resistance"] \div 100
    ELSE last.current_fields["resistance"] \div 100

\* C19: after a resistance field with value v is decoded, last_resistance is
\* v, whichever branch the tracking took.
C19_LastResistanceStored ==
    (last.op \in BikeOps
     /\ ("resistance" \in DOMAIN last.current_fields
         \/ (last.op = "merge" /\ "resistance" \in DOMAIN last.emitted)))
        => resistance_tracking.last_resistance = LastDecodedResistance

C19_Witness ==
    /\ ResistanceChanged
    /\ ~before.rt.resistance_command_pending
    /\ last.op = "replace"
    /\ resistance_tracking.last_resistance = 8

\* C20: an acknowledgement with a result code other than 1 records false for
\* its command in control_commands_tested and leaves the Correlator State
\* unchanged; with result code 1 it records true.
C20_AckLedger ==
    last.op = "ack"
        => /\ CommandName(last.data[2]) \in DOMAIN test_results["control_commands_tested"]
           /\ test_results["control_commands_tested"][CommandName(last.data[2])]
                 = (last.data[3] = 1)
           /\ last.data[3] # 1 => resistance_tracking = before.rt

C20_Witness ==
    /\ last.op = "ack"
    /\ last.data = <<128, 4, 2>>
    /\ before.rt.resistance_command_pending
    /\ test_results["control_commands_tested"]["SET_RESISTANCE_LEVEL"] = FALSE

---------------------------------------------------------------------------
(* Unrecognised acknowledgements *)

RecognisedOpcodes == {0, 1, 4, 5, 7, 8, 17}

RecognisedNames ==
    {"REQUEST_CONTROL", "RESET", "SET_RESISTANCE_LEVEL", "SET_TARGET_POWER",
     "START", "STOP", "SET_SIM_PARAMS"}

\* C21: an acknowledgement whose request opcode is not a recognised one is
\* recorded in control_commands_tested under an UNKNOWN name, with the rest
\* of the ledger, the Correlator State and the capability flags unchanged.
C21_UnknownOpcodeRecorded ==
    (last.op = "ack" /\ last.data[2] \notin RecognisedOpcodes)
        => LET ledger == test_results["control_commands_tested"]
               old == before.tr.control_commands_tested
           IN  /\ \E k \in DOMAIN ledger \ RecognisedNames :
                     /\ Contains(k, "UNKNOWN")
                     /\ ledger[k] = (last.data[3] = 1)
                     /\ DOMAIN ledger \ {k} = DOMAIN old \ {k}
                     /\ \A n \in DOMAIN ledger \ {k} : ledger[n] = old[n]
               /\ resistance_tracking = before.rt
               /\ CapabilityFlags(test_results) = CapabilityFlags(before.tr)
               /\ test_results["power_control"] = before.tr.power_control

C21_Witness ==
    /\ last.op = "ack"
    /\ last.data = <<128, 153, 1>>
    /\ before.rt.resistance_command_pending
    /\ "UNKNOWN_0x99" \in DOMAIN test_results["control_commands_tested"]
    /\ test_results["control_commands_tested"]["UNKNOWN_0x99"] = TRUE

---------------------------------------------------------------------------
(* Flag Decoder: the field table of the specification *)

TwoTo == <<1, 2, 4, 8, 16, 32, 64, 128, 256, 512, 1024, 2048, 4096>>

BitSet(flags, b) == (flags \div TwoTo[b + 1]) % 2 = 1

Bits == 0..12

KindOfBit == <<"speed", "avg_speed", "cadence", "avg_cadence", "distance",
               "resistance", "power", "avg_power", "energy", "heart_rate",
               "met", "elapsed_time", "remaining_time">>

WidthOfBit(b) == IF b = 4 THEN 3 ELSE IF b = 9 THEN 1 ELSE 2

\* hundredths per raw unit: /100 is 1, /2 is 50, /10 is 10, x1 is 100
ScaleOfBit(b) ==
    IF b \in {0, 1, 10} THEN 1
    ELSE IF b \in {2, 3} THEN 50
    ELSE IF b = 4 THEN 10 ELSE 100

SignedBits == {5, 6, 7}

Flagged(flags, b) == IF b = 0 THEN ~BitSet(flags, 0) ELSE BitSet(flags, b)

\* the unsigned little-endian integer in the w bytes of data from offset off
RawAt(data, off, w) ==
    data[off + 1]
        + (IF w >= 2 THEN 256 * data[off + 2] ELSE 0)
        + (IF w >= 3 THEN 65536 * data[off + 3] ELSE 0)

TwosComplement16(raw) == IF raw >= 32768 THEN raw - 65536 ELSE raw

ValueOfBit(b, raw) ==
    (IF b \in SignedBits THEN TwosComplement16(raw) ELSE raw) * ScaleOfBit(b)

RECURSIVE WidthsBelow(_, _)
\* the widths of the flagged fields of the bits below b
WidthsBelow(flags, b) ==
    IF b = 0 THEN 0
    ELSE (IF Flagged(flags, b - 1) THEN WidthOfBit(b - 1) ELSE 0)
             + WidthsBelow(flags, b - 1)

CarriesAllInFull(data) == Len(data) >= 2 + WidthsBelow(FlagsOf(data), 13)

\* C22: on a payload that carries all flagged fields in full the decoder
\* returns exactly the flagged fields (bit 0 clear for speed, bit set for the
\* others), each read little-endian at offset 2 plus the widths of the flagged
\* fields of the lower bits; flags 0x0000 with [00 00 10 27] gives only speed
\* with raw value 10000.
C22_DecodesFlaggedFields ==
    (pc = "decoded" /\ CarriesAllInFull(last.data))
        => LET flags == FlagsOf(last.data)
               fields == last.current_fields
           IN  /\ DOMAIN fields = {KindOfBit[b + 1] : b \in {c \in Bits : Flagged(flags, c)}}
               /\ \A b \in Bits :
                     Flagged(flags, b)
                         => fields[KindOfBit[b + 1]]
                               = ValueOfBit(b, RawAt(last.data, 2 + WidthsBelow(flags, b),
                                                     WidthOfBit(b)))
               /\ last.data = <<0, 0, 16, 39>>
                     => (DOMAIN fields = {"speed"} /\ fields["speed"] = 10000)

C22_Witness ==
    /\ pc = "decoded"
    /\ last.data = <<0, 0, 16, 39>>
    /\ DOMAIN last.current_fields = {"speed"}
    /\ last.current_fields["speed"] = 10000

\* C23 as stated: flags 0x0004 with [04 00 64 00] decodes to exactly
\* {cadence: 50.0}.
C23_CadenceOnly ==
    (pc = "decoded" /\ last.data = <<4, 0, 100, 0>>)
        => (DOMAIN last.current_fields = {"cadence"}
            /\ last.current_fields["cadence"] = 5000)

\* C23: flags 0x0004 has bit 0 clear, so [04 00 64 00] decodes to exactly
\* {speed: 1.00} and the flagged cadence finds no bytes left; {cadence: 50.0}
\* is what flags 0x0005 with [05 00 64 00] decodes to.
C23_SpeedOnlyCadenceNeedsBit0 ==
    pc = "decoded"
        => /\ last.data = <<4, 0, 100, 0>>
                => (DOMAIN last.current_fields = {"speed"}
                    /\ last.current_fields["speed"] = 100)
           /\ last.data = <<5, 0, 100, 0>>
                => (DOMAIN last.current_fields = {"cadence"}
                    /\ last.current_fields["cadence"] = 5000)

C23_Witness ==
    /\ pc = "decoded"
    /\ last.data = <<4, 0, 100, 0>>
    /\ "cadence" \notin DOMAIN last.current_fields
    /\ last.current_fields["speed"] = 100

RECURSIVE CursorAt(_, _)
\* the cursor when bit b is reached: it starts at 2 and moves by the width
\* of every lower flagged field that fitted
CursorAt(data, b) ==
    IF b = 0 THEN 2
    ELSE CHOOSE r \in {IF Flagged(FlagsOf(data), b - 1) /\ c + WidthOfBit(b - 1) <= Len(data)
                       THEN c + WidthOfBit(b - 1) ELSE c
                       : c \in {CursorAt(data, b - 1)}} : TRUE

ReadInFull(data, b) ==
    Flagged(FlagsOf(data), b) /\ CursorAt(data, b) + WidthOfBit(b) <= Len(data)

\* C24: when a flagged field needs more bytes than remain after the cursor,
\* the result holds exactly the fields that were read in full, the cursor
\* stayed where it was at every omitted field, and the later fields are read
\* from that cursor.
C24_TruncatedFieldSkipped ==
    (pc = "decoded" /\ ~CarriesAllInFull(last.data))
        => LET fields == last.current_fields
           IN  /\ DOMAIN fields = {KindOfBit[b + 1] : b \in {c \in Bits : ReadInFull(last.data, c)}}
               /\ \A b \in Bits :
                     ReadInFull(last.data, b)
                         => fields[KindOfBit[b + 1]]
                               = ValueOfBit(b, RawAt(last.data, CursorAt(last.data, b),
                                                     WidthOfBit(b)))

\* distance (3 bytes) does not fit in the 2 bytes left, and heart rate is
\* read from the byte where distance would have started
C24_Witness ==
    /\ pc = "decoded"
    /\ FlagsOf(last.data) = 529
    /\ Len(last.data) = 4
    /\ DOMAIN last.current_fields = {"heart_rate"}
    /\ last.current_fields["heart_rate"] = 100 * last.data[3]

\* C25 as stated: a call to process_indoor_bike_data leaves the Correlator
\* State, the Observation Record and the Merge Buffer unchanged.
C25_DecoderHasNoSideEffects ==
    pc = "decoded"
        => /\ resistance_tracking = before.rt
           /\ CorrelatorView(test_results) = before.tr
           /\ packet_buffer = EmptyBuffer

\* C26: resistance, power and average power are decoded as signed 16-bit
\* little-endian integers (0xFFFF is -1, 0x8000 is -32768), every other field
\* as an unsigned one.
C26_SignedFields ==
    pc = "decoded"
        => \A b \in Bits :
              ReadInFull(last.data, b)
                  => LET raw == RawAt(last.data, CursorAt(last.data, b), WidthOfBit(b))
                         v == last.current_fields[KindOfBit[b + 1]]
                     IN  /\ b \in SignedBits
                             => /\ v = ScaleOfBit(b) * (IF raw >= 32768 THEN raw - 65536 ELSE raw)
                                /\ raw = 65535 => v = -1 * ScaleOfBit(b)
                                /\ raw = 32768 => v = -32768 * ScaleOfBit(b)
                         /\ b \notin SignedBits => (v = ScaleOfBit(b) * raw /\ v >= 0)

C26_Witness ==
    /\ pc = "decoded"
    /\ last.data = <<224, 0, 251, 127, 0, 128, 1, 128, 2, 128>>
    /\ last.current_fields["resistance"] = -3276800
    /\ last.current_fields["power"] = -3276700
    /\ last.current_fields["speed"] = 32763

---------------------------------------------------------------------------
(* Merge Buffer: one notification at a time *)

\* the payloads of the single notifications the device sends
RawNotifications == {Notification(in[1], in[2], in[3]) : in \in NotificationInputs}

\* the step is a call of notification_handler for Indoor Bike Data
BikeDataStep == nNotifs' = nNotifs + 1

\* C27: after a merge the buffer is empty and the next notification is
\* buffered without emission; the buffer only ever holds one unmerged
\* notification, and a merge combines the incoming notification with the
\* immediately preceding one, which was not merged itself.
C27_MergeAtMostOncePerPair ==
    [][ /\ last'.op = "merge" => packet_buffer' = EmptyBuffer
        /\ packet_buffer'.data # NoneData => packet_buffer'.data \in RawNotifications
        /\ (BikeDataStep /\ last.op = "merge")
              => /\ last'.op = "buffer"
                 /\ test_results'["data_fields_detected"] = test_results["data_fields_detected"]
        /\ (BikeDataStep /\ last'.op \in {"merge", "replace"})
              => /\ packet_buffer.data # NoneData
                 /\ last.op \in BikeOps
                       => /\ last.op \in {"buffer", "replace"}
                          /\ packet_buffer.data = last.data
                          /\ packet_buffer.detected_fields = last.current_fields
        /\ nAcks' # nAcks => packet_buffer' = packet_buffer ]_vars

C27_Witness ==
    /\ nNotifs = 3
    /\ nAcks = 0
    /\ last.op = "buffer"
    /\ last.prev = EmptyBuffer
    /\ packet_buffer.data = last.data
    /\ DOMAIN test_results["data_fields_detected"] # {}

\* C28: a notification that finds the Merge Buffer empty is stored as the
\* pending entry and data_fields_detected is unchanged by the call.
C28_EmptyBufferStores ==
    [][ (BikeDataStep /\ packet_buffer.data = NoneData)
            => /\ packet_buffer' = [data |-> last'.data, flags |-> FlagsOf(last'.data),
                                    detected_fields |-> last'.current_fields]
               /\ last'.emitted = EmptyDict
               /\ test_results'["data_fields_detected"]
                     = test_results["data_fields_detected"] ]_vars

C28_Witness ==
    /\ last.op = "buffer"
    /\ last.prev = EmptyBuffer
    /\ packet_buffer.detected_fields = last.current_fields
    /\ "resistance" \in DOMAIN last.current_fields
    /\ "resistance" \in DOMAIN test_results["data_fields_detected"]
    /\ test_results["data_fields_detected"]["resistance"] # last.current_fields["resistance"]

---------------------------------------------------------------------------
(* Detected fields after the teardown flush *)

\* C30 as stated: after the teardown flush, for every field kind carried by
\* at least one notification of the session, data_fields_detected holds the
\* value carried by the last notification that contained that kind.
C30_LastValuePerKind ==
    (pc \in {"returned", "interrupted", "done"} /\ flushed # NoneDict)
        => \A k \in DOMAIN carried :
              /\ k \in DOMAIN test_results["data_fields_detected"]
              /\ test_results["data_fields_detected"][k] = carried[k]

---------------------------------------------------------------------------
(* Exceptions inside notification_handler *)

\* C29 as stated: an exception raised while handling a notification is caught
\* inside notification_handler and appended to issues_found; it does not
\* leave the handler.
C29_HandlerContainsExceptions ==
    /\ last.op # "propagated"
    /\ last.op = "caught"
          => /\ "issues_found" \in DOMAIN test_results
             /\ Len(test_results["issues_found"]) > 0
             /\ Contains(test_results["issues_found"][Len(test_results["issues_found"])],
                         "Notification processing error")

---------------------------------------------------------------------------
(* Commands without an acknowledgement *)

\* the outcome the Correlator gives a change attributed to the command that
\* was pending when the call began
AttributedToPending ==
    /\ ~resistance_tracking.resistance_command_pending
    /\ resistance_tracking.last_command_type = NoneStr
    /\ Contains(before.rt.last_command_type, "SET_RESISTANCE_LEVEL")
          => test_results["resistance_control"]
    /\ Contains(before.rt.last_command_type, "SET_SIM_PARAMS")
          => test_results["sim_mode_support"]
    /\ test_results["issues_found"] = before.tr.issues_found

\* C31: a resistance change observed after send_control_command marked a
\* command pending and before any acknowledgement of it arrived is attributed
\* to that command: the capability of its kind is confirmed, the Correlator
\* is idle again and no anomaly is recorded.
C31_ChangeBeforeAckAttributed ==
    (/\ ResistanceChanged
     /\ before.rt.resistance_command_pending
     /\ before.rt.last_command_type \notin DOMAIN before.tr.control_commands_tested)
        => AttributedToPending

C31_Witness ==
    /\ ResistanceChanged
    /\ before.rt.resistance_command_pending
    /\ before.rt.last_command_type = "SET_RESISTANCE_LEVEL"
    /\ before.tr.control_commands_tested = EmptyDict
    /\ ~before.tr.resistance_control
    /\ test_results["resistance_control"]
    /\ ~resistance_tracking.resistance_command_pending

\* the step is a send_control_command whose GATT write raises
WriteRaises ==
    /\ pc = "testing"
    /\ step <= Len(Script)
    /\ \/ (Script[step].do = "test_command" /\ nFaults' = nFaults + 1)
       \/ (Script[step].do = "send" /\ pc' = "finally" /\ ending' = "error")

\* the write of the command pending in the snapshot b raised
PendingWriteFailed(b) ==
    /\ b.rt.resistance_command_pending
    /\ b.rt.last_command_type \in DOMAIN b.tr.control_tests
    /\ b.tr.control_tests[b.rt.last_command_type] = "Failed"

\* C32: after a write of a resistance-related command that raised, the
\* Correlator is pending with that command, and the next resistance change
\* observed is attributed to it.
C32_FailedWriteStaysPending ==
    /\ [][ (WriteRaises /\ ResistanceRelated(Script[step].name))
              => /\ resistance_tracking'.resistance_command_pending
                 /\ resistance_tracking'.last_command_type = Script[step].name ]_vars
    /\ []((ResistanceChanged /\ PendingWriteFailed(before)) => AttributedToPending)

C32_Witness ==
    /\ ResistanceChanged
    /\ PendingWriteFailed(before)
    /\ before.rt.last_command_type = "SET_RESISTANCE_LEVEL"
    /\ ~before.tr.resistance_control
    /\ test_results["resistance_control"]
    /\ resistance_tracking.last_command_type = NoneStr

---------------------------------------------------------------------------
(* Monotone entries of the Observation Record *)

\* C33: within a session no step makes resistance_control or
\* sim_mode_support false once it is true, and no step removes a key from
\* data_fields_detected.
C33_FlagsAndFieldsMonotone ==
    [][ /\ test_results["resistance_control"] => test_results'["resistance_control"]
        /\ test_results["sim_mode_support"] => test_results'["sim_mode_support"]
        /\ DOMAIN test_results["data_fields_detected"]
              \subseteq DOMAIN test_results'["data_fields_detected"] ]_vars

C33_Witness ==
    /\ pc = "done"
    /\ analyzeCalls = 1
    /\ nAcks = 1
    /\ test_results["resistance_control"]
    /\ DOMAIN test_results["data_fields_detected"] # {}
    /\ Len(test_results["reasons"]) > 0

---------------------------------------------------------------------------
(* Conservation of notifications *)

\* C34: once cleanup_packet_buffer has run, every Indoor Bike Data
\* notification of the session has gone into exactly one sample folded into
\* the Observation Record, alone or as one half of a merge, and none is left
\* in the Merge Buffer.
C34_EveryNotificationFoldedOnce ==
    pc \in {"returned", "interrupted", "done"}
        => /\ Len(contrib.folded) = nNotifs
           /\ \A i \in 1..nNotifs : contrib.folded[i] = 1
           /\ contrib.held = {}
           /\ packet_buffer = EmptyBuffer

C34_Witness ==
    /\ pc = "returned"
    /\ nNotifs = 3
    /\ last.op = "flush"
    /\ last.prevOp = "replace"
    /\ contrib.folded = <<1, 1, 1>>

---------------------------------------------------------------------------
(* The verdict the anomaly rule would give *)

\* C35: no issue of the Observation Record ever contains the text
\* 'Resistance changed without any resistance-related command', and the
\* verdict is never PARTIAL_FIXABLE.
C35_NeverPartialFixable ==
    /\ \A i \in DOMAIN test_results["issues_found"] :
          ~Contains(test_results["issues_found"][i], ANOMALY_TEXT)
    /\ test_results["compatibility_level"] # PARTIAL_FIXABLE

C35_Witness ==
    /\ pc = "done"
    /\ analyzeCalls = 1
    /\ resistance_tracking.resistance_change_detected
    /\ ~test_results["sim_mode_support"]
    /\ {"speed", "cadence"} \subseteq DOMAIN test_results["data_fields_detected"]
    /\ test_results["protocol_type"] = P_FTMS
    /\ test_results["compatibility_level"] = PARTIAL
    /\ test_results["reasons"] = <<R_PARTIAL>>

---------------------------------------------------------------------------
(* Exceptions after the connection is up *)

\* the BLE connection was established in this session
WasConnected == test_results["device_info"] # EmptyDict

\* the record says the connection failed and, once classified, carries the
\* verdict of a failed connection
ConnectionFailedOutcome ==
    /\ ~test_results["connection_status"]
    /\ (pc = "done" /\ analyzeCalls = 1)
           => /\ test_results["compatibility_level"] = IMPOSSIBLE
              /\ test_results["reasons"] = <<R_CONNECTION_FAILED>>

\* C36 (as stated): whenever a driver step has raised after the connection
\* was established -- a GATT write or read whose exception the driver
\* swallows included -- connection_status is false and the classified
\* verdict is IMPOSSIBLE with the connection-failed reason.
C36_AnyRaiseFailsConnection ==
    (WasConnected /\ (nFaults > 0 \/ ending = "error")) => ConnectionFailedOutcome

\* C36 (amended): whenever an exception has reached the except-clause of
\* connect_and_test_device after the connection was established,
\* connection_status is false and the classified verdict is IMPOSSIBLE with
\* the connection-failed reason, whatever was recorded before.
C36_PropagatedRaiseFailsConnection ==
    (WasConnected /\ ending = "error") => ConnectionFailedOutcome

C36_Witness ==
    /\ pc = "done"
    /\ analyzeCalls = 1
    /\ ending = "error"
    /\ WasConnected
    /\ test_results["resistance_control"]
    /\ "resistance" \in DOMAIN test_results["data_fields_detected"]
    /\ test_results["compatibility_level"] = IMPOSSIBLE
    /\ test_results["reasons"] = <<R_CONNECTION_FAILED>>

---------------------------------------------------------------------------
(* The verdicts of the driver and of the Classifier *)

\* the five values analyze_test_results assigns to compatibility_level
ClassifierVerdicts ==
    {IMPOSSIBLE, UNVERIFIABLE_CUSTOM_PROTOCOL, PARTIAL, PARTIAL_FIXABLE, FULL}

\* C37: once generate_report has run the Classifier on the session's
\* record, compatibility_level is one of the five values the Classifier
\* writes; the driver's limited-compatibility and vendor-app-required values
\* do not survive.
C37_DriverVerdictsReplaced ==
    analyzeCalls > 0
        => /\ test_results["compatibility_level"] \in ClassifierVerdicts
           /\ test_results["compatibility_level"] \notin {VENDOR_APP_REQUIRED, LIMITED}

C37_Witness ==
    /\ pc = "done"
    /\ analyzeCalls = 1
    /\ analyzed["compatibility_level"] = VENDOR_APP_REQUIRED
    /\ test_results["compatibility_level"] = IMPOSSIBLE

---------------------------------------------------------------------------
(* What the Classifier writes *)

\* the entries analyze_test_results assigns
VerdictKeys == {"compatibility_level", "reasons"}

\* C38: a run of analyze_test_results leaves every entry of the record other
\* than compatibility_level and reasons as it was, adds no other entry, and
\* the reasons list it leaves holds none of the reasons that were in the
\* record before.
C38_OnlyVerdictAndReasons ==
    [][ analyzeCalls' # analyzeCalls
          => /\ DOMAIN test_results' = DOMAIN test_results \cup VerdictKeys
             /\ \A k \in DOMAIN test_results \ VerdictKeys :
                   test_results'[k] = test_results[k]
             /\ \A i \in DOMAIN test_results["reasons"] :
                \A j \in DOMAIN test_results'["reasons"] :
                   test_results'["reasons"][j] # test_results["reasons"][i] ]_vars

C38_Witness ==
    /\ pc = "done"
    /\ analyzeCalls = 1
    /\ Len(analyzed["reasons"]) = 1
    /\ analyzed["compatibility_level"] = LIMITED
    /\ Len(analyzed["issues_found"]) = 0
    /\ test_results["compatibility_level"] = PARTIAL
    /\ test_results["reasons"] = <<R_CSC_ONLY>>
    /\ test_results["device_info"] = analyzed["device_info"]

---------------------------------------------------------------------------
(* What the verdict depends on *)

\* compatibility_level and reasons of a record, as far as it has them
VerdictOf(tr) == <<Get(tr, "compatibility_level", NoneStr), Get(tr, "reasons", <<>>)>>

\* the record with other values under the same keys of data_fields_detected
OtherValues(tr, delta) ==
    IF "data_fields_detected" \in DOMAIN tr /\ tr["data_fields_detected"] # NoneDict
    THEN Put(tr, "data_fields_detected",
             [k \in DOMAIN tr["data_fields_detected"] |->
                 IF delta = 0 THEN 0 ELSE tr["data_fields_detected"][k] + delta])
    ELSE tr

\* the records that differ from tr in resistance_control, power_control,
\* the command ledger and the values of the detected fields only
Variants(tr) ==
    { Update(OtherValues(tr, delta), Update(rc, Update(pw, ledger))) :
        delta \in {0, 100},
        rc \in {EmptyDict, [resistance_control |-> FALSE], [resistance_control |-> TRUE]},
        pw \in {EmptyDict, [power_control |-> FALSE], [power_control |-> TRUE]},
        ledger \in {EmptyDict,
                    [control_commands_tested |-> EmptyDict],
                    [control_commands_tested |->
                        [SET_RESISTANCE_LEVEL |-> TRUE, SET_SIM_PARAMS |-> FALSE]]} }

---------------------------------------------------------------------------
(* Classifying twice *)

\* C40: a second run of analyze_test_results on the record the first run
\* has classified leaves compatibility_level and reasons, and with them the
\* whole record, as the first run left them.
C40_ClassificationIdempotent ==
    pc = "reclassified"
        => /\ VerdictOf(test_results) = VerdictOf(analyzed)
           /\ test_results = analyzed

C40_Witness ==
    /\ pc = "reclassified"
    /\ analyzeCalls = 2
    /\ VerdictOf(analyzed) = <<PARTIAL_FIXABLE, <<R_FIXABLE>> >>
    /\ VerdictOf(test_results) = <<PARTIAL_FIXABLE, <<R_FIXABLE>> >>

====
